---- MODULE Spec2Model ----
(***************************************************************************)
(* Model of chimitheque_utils: the empirical formula normaliser            *)
(* sort_empirical_formula (src/src/formula.rs).  A string is a sequence of *)
(* one-character strings; the scan loop is a state machine with one action *)
(* per arm of the match on the character under the cursor, and one action  *)
(* for the aggregation and formatting that follow the loop.                *)
(***************************************************************************)
EXTENDS Integers, Sequences, FiniteSets, TLC

(***************************************************************************)
(* Characters.  CharCode is the code point, which is the order Rust's      *)
(* String comparison uses.                                                 *)
(***************************************************************************)
UpperSeq == <<"A", "B", "C", "D", "E", "F", "G", "H", "I", "J", "K", "L", "M", "N", "O", "P", "Q", "R", "S", "T", "U", "V", "W", "X", "Y", "Z">>
LowerSeq == <<"a", "b", "c", "d", "e", "f", "g", "h", "i", "j", "k", "l", "m", "n", "o", "p", "q", "r", "s", "t", "u", "v", "w", "x", "y", "z">>
DigitSeq == <<"0", "1", "2", "3", "4", "5", "6", "7", "8", "9">>

Upper == {UpperSeq[i] : i \in DOMAIN UpperSeq}
Lower == {LowerSeq[i] : i \in DOMAIN LowerSeq}
Digit == {DigitSeq[i] : i \in DOMAIN DigitSeq}
OpenChars == {"(", "["}
CloseChars == {")", "]"}

\* Option<char>::None
None == "None"

IndexIn(seq, c) == CHOOSE i \in DOMAIN seq : seq[i] = c

CharCode(c) ==
    IF c \in Digit THEN 48 + IndexIn(DigitSeq, c) - 1
    ELSE IF c \in Upper THEN 65 + IndexIn(UpperSeq, c) - 1
    ELSE 97 + IndexIn(LowerSeq, c) - 1

DigitValue(c) == IndexIn(DigitSeq, c) - 1
DigitChar(n) == DigitSeq[n + 1]

periodic_table == {
    <<"A","c">>, <<"A","g">>, <<"A","l">>, <<"A","m">>, <<"A","r">>, <<"A","s">>,
    <<"A","t">>, <<"A","u">>, <<"B">>, <<"B","a">>, <<"B","e">>, <<"B","h">>,
    <<"B","i">>, <<"B","k">>, <<"B","r">>, <<"C">>, <<"C","a">>, <<"C","d">>,
    <<"C","e">>, <<"C","f">>, <<"C","l">>, <<"C","m">>, <<"C","n">>, <<"C","o">>,
    <<"C","r">>, <<"C","s">>, <<"C","u">>, <<"D">>, <<"D","b">>, <<"D","s">>,
    <<"D","y">>, <<"E","r">>, <<"E","s">>, <<"E","u">>, <<"F">>, <<"F","e">>,
    <<"F","m">>, <<"F","r">>, <<"G","a">>, <<"G","d">>, <<"G","e">>, <<"H">>,
    <<"H","e">>, <<"H","f">>, <<"H","g">>, <<"H","o">>, <<"H","s">>, <<"I">>,
    <<"I","n">>, <<"I","r">>, <<"K">>, <<"K","r">>, <<"L","a">>, <<"L","i">>,
    <<"L","r">>, <<"L","u">>, <<"M","d">>, <<"M","g">>, <<"M","n">>, <<"M","o">>,
    <<"M","t">>, <<"N">>, <<"N","a">>, <<"N","b">>, <<"N","d">>, <<"N","e">>,
    <<"N","i">>, <<"N","o">>, <<"N","p">>, <<"O">>, <<"O","s">>, <<"P">>, <<"P","a">>,
    <<"P","b">>, <<"P","d">>, <<"P","m">>, <<"P","o">>, <<"P","r">>, <<"P","t">>,
    <<"P","u">>, <<"R","a">>, <<"R","b">>, <<"R","e">>, <<"R","f">>, <<"R","g">>,
    <<"R","h">>, <<"R","n">>, <<"R","u">>, <<"S">>, <<"S","b">>, <<"S","c">>,
    <<"S","e">>, <<"S","g">>, <<"S","i">>, <<"S","m">>, <<"S","n">>, <<"S","r">>,
    <<"T","a">>, <<"T","b">>, <<"T","c">>, <<"T","e">>, <<"T","h">>, <<"T","i">>,
    <<"T","l">>, <<"T","m">>, <<"U">>, <<"V">>, <<"W">>, <<"X","e">>, <<"Y">>,
    <<"Y","b">>, <<"Z","n">>, <<"Z","r">>
}

(***************************************************************************)
(* Inputs: every string of at most MaxLen characters over Sigma, and the   *)
(* formulas of the documentation and of the tests.                         *)
(***************************************************************************)
MaxLen == 4

Sigma == {"C", "H", "X", "a", "l", "x", "(", ")", "2", "."}

BoundedInputs == UNION {[1..n -> Sigma] : n \in 0..MaxLen}

\* ten nested groups of 99: the count of C, 99^10, is above 2^64
OverflowingProduct ==
    <<"(", "(", "(", "(", "(", "(", "(", "(", "(", "(", "C", "9", "9", ")", "9", "9", ")", "9", "9", ")", "9", "9", ")", "9", "9", ")", "9", "9", ")", "9", "9", ")", "9", "9", ")", "9", "9", ")", "9", "9">>

\* two occurrences of C of 19 * 99^9 each, below 2^64, whose sum is above 2^64
OverflowingSum ==
    <<"(", "(", "(", "(", "(", "(", "(", "(", "(", "(", "C", "1", "9", "C", "1", "9", ")", "9", "9", ")", "9", "9", ")", "9", "9", ")", "9", "9", ")", "9", "9", ")", "9", "9", ")", "9", "9", ")", "9", "9", ")", "9", "9">>

Corpus == {
    <<"C", "l", "(", "C", "a", "C", "2", "(", "N", "a", "C", "l", ")", "3", ")", "2", ".", "N", "a", "=", "P">>,
    <<"O", "2", "H", "4", "C", "1">>,
    <<"C", "5", "H", "1", "1", "B", "r">>,
    <<"C", "H", "2", "C", "l", "2">>,
    <<"C", "6", "H", "1", "2", "O", "7">>,
    <<"B", "a", "C", "l", "2">>,
    <<"C", "1", "0", "0">>,
    <<")", "H", "2", "O">>,
    <<"X", "x", "2">>,
    <<"2", "0", "2", "-", "8", "5", "3", "-", "6">>,
    <<"2", "-", "(", "H", "O", ")", "C", "6", "H", "4", "C", "H", "O">>,
    <<"(", "N", ")", "2", "(", "O", ")", "3">>,
    <<"C", "H", "3", "C", "H", "2", "C", "H", "2", "B", "r">>,
    <<"C", "6", "H", "5", "C", "H", "=", "C", "H", "C", "H", "O">>,
    <<"[", "C", "H", "2", "]", "2">>,
    <<"C", "6", "H", "5", "C", "H", "2", "P", "(", "O", ")", "(", "O", "C", "2", "H", "5", ")", "2">>,
    <<"C", "1", "1", "H", "1", "7", "O", "3", "P">>,
    <<"[", "(", "C", "6", "H", "5", ")", "2", "P", "C", "1", "0", "H", "6", "-", "]", "2">>,
    <<"(", "C", ")", "2", "2", "2">>,
    <<"(", "C", "]", "2", "[", "H", ")", "(", "O">>,
    <<"(", "N", "a", ")", "2", "(", "C", "l", ")", "3">>,
    <<"(", "C", "l", ")", "3", "(", "N", "a", ")", "2">>,
    <<"(", "C", "2", ")", "1", "0", "5", "H", "2", "2", "2", "2">>,
    OverflowingProduct,
    OverflowingSum
}

(***************************************************************************)
(* Chains of nested groups, each closed and followed by a multiplier, as   *)
(* in the example of the documentation: "((C2)3)10", "(H(H(Na)2)3)2", ...  *)
(***************************************************************************)
MaxNest == 3

NumberTokens ==
    {[digits |-> <<"2">>, value |-> 2],
     [digits |-> <<"3">>, value |-> 3],
     [digits |-> <<"1", "0">>, value |-> 10]}

InlineTokens == NumberTokens \cup {[digits |-> <<>>, value |-> 1]}

ChainParams ==
    UNION {[nest : {k}, symbol : {<<"C">>, <<"N", "a">>}, inline : InlineTokens,
            multipliers : [1..k -> NumberTokens], siblings : BOOLEAN] : k \in 1..MaxNest}

RECURSIVE ChainOpens(_, _)
ChainOpens(k, siblings) ==
    IF k = 0 THEN <<>>
    ELSE <<"(">> \o (IF siblings /\ k > 1 THEN <<"H">> ELSE <<>>) \o ChainOpens(k - 1, siblings)

RECURSIVE ChainCloses(_, _)
ChainCloses(multipliers, j) ==
    IF j > Len(multipliers) THEN <<>>
    ELSE <<")">> \o multipliers[j].digits \o ChainCloses(multipliers, j + 1)

ChainInput(p) ==
    ChainOpens(p.nest, p.siblings) \o p.symbol \o p.inline.digits
        \o ChainCloses(p.multipliers, 1)

ChainInputs == {ChainInput(p) : p \in ChainParams}

Inputs == BoundedInputs \cup Corpus \cup ChainInputs

VARIABLES formula, cursor_index, parenthesis_depth, previous_char, atom_blocks, result

\* the profile of the build: TRUE when arithmetic overflow is checked and panics
\* (debug), FALSE when it wraps (release)
VARIABLE overflow_checks

\* the state of the other functions of the crate, each checked under a
\* specification of its own and left alone by the steps of the scan
VARIABLES calls,
          cas_number, cas_result,
          ce_number, ce_result,
          clean_s, clean_transform, clean_result,
          pubchem_call, calls_done,
          query_key, query_value, request_filter_result

casvars == <<cas_number, cas_result>>
cevars == <<ce_number, ce_result>>
cleanvars == <<clean_s, clean_transform, clean_result>>
pubchemvars == <<pubchem_call, calls_done>>

scanvars == <<formula, cursor_index, parenthesis_depth, previous_char, atom_blocks, result,
              overflow_checks>>

filtervars == <<query_key, query_value, request_filter_result>>

vars == <<scanvars, calls, casvars, cevars, cleanvars, pubchemvars, filtervars>>

NotCalled == [kind |-> "NotCalled"]

CallsIdle == calls = <<>>
CasIdle == cas_number = <<>> /\ cas_result = NotCalled
CeIdle == ce_number = <<>> /\ ce_result = NotCalled
CleanIdle == clean_s = <<>> /\ clean_transform = None /\ clean_result = NotCalled
FilterIdle == query_key = None /\ query_value = <<>> /\ request_filter_result = NotCalled
PubchemIdle == pubchem_call = NotCalled /\ calls_done = 0

Pending == [kind |-> "Pending", text |-> <<>>]
Ok(s) == [kind |-> "Ok", text |-> s]
Err(e, s) == [kind |-> e, text |-> s]

\* the call does not return: the thread panics with this message
Panic(message) == [kind |-> "Panic", text |-> <<message>>]

(***************************************************************************)
(* Numbers.  A natural number is the sequence of its digits in base 2^16,  *)
(* the least significant first and the most significant not 0 (<<>> is 0). *)
(* A usize is a natural number of at most WordLimbs digits, 64 bits; an    *)
(* operation whose result has more overflows, and its wrapped result is    *)
(* the result modulo 2^64.                                                 *)
(***************************************************************************)
Limb == 65536
WordLimbs == 4

RECURSIVE NatOf(_)
NatOf(n) == IF n = 0 THEN <<>> ELSE <<n % Limb>> \o NatOf(n \div Limb)

RECURSIVE NatMulCarry(_, _, _)
NatMulCarry(a, n, carry) ==
    IF a = <<>> THEN NatOf(carry)
    ELSE <<(a[1] * n + carry) % Limb>> \o NatMulCarry(Tail(a), n, (a[1] * n + carry) \div Limb)

\* a times the number n, n below 2^15
NatMul(a, n) == IF n = 0 THEN <<>> ELSE NatMulCarry(a, n, 0)

RECURSIVE NatAddCarry(_, _, _)
NatAddCarry(a, b, carry) ==
    IF a = <<>> /\ b = <<>> THEN NatOf(carry)
    ELSE LET x == IF a = <<>> THEN 0 ELSE a[1]
             y == IF b = <<>> THEN 0 ELSE b[1]
         IN <<(x + y + carry) % Limb>>
               \o NatAddCarry(IF a = <<>> THEN <<>> ELSE Tail(a),
                              IF b = <<>> THEN <<>> ELSE Tail(b),
                              (x + y + carry) \div Limb)

NatAdd(a, b) == NatAddCarry(a, b, 0)

\* a without its most significant digits that are 0
RECURSIVE Canonical(_)
Canonical(a) ==
    IF a # <<>> /\ a[Len(a)] = 0 THEN Canonical(SubSeq(a, 1, Len(a) - 1)) ELSE a

\* the quotient q and the remainder r of the digits 1..i of a, with rem carried
\* in from the more significant digits, by the number d, d below 2^15
RECURSIVE NatDivFrom(_, _, _, _)
NatDivFrom(a, d, i, rem) ==
    IF i = 0 THEN [q |-> <<>>, r |-> rem]
    ELSE LET lower == NatDivFrom(a, d, i - 1, (rem * Limb + a[i]) % d)
         IN [q |-> Append(lower.q, (rem * Limb + a[i]) \div d), r |-> lower.r]

NatDiv(a, d) == Canonical(NatDivFrom(a, d, Len(a), 0).q)
NatMod(a, d) == NatDivFrom(a, d, Len(a), 0).r

\* the operation overflows a usize
Overflows(a) == Len(a) > WordLimbs

\* the value modulo 2^64
Wrapped(a) == IF Overflows(a) THEN Canonical(SubSeq(a, 1, WordLimbs)) ELSE a

\* usize::wrapping_mul and usize::wrapping_add, what * and + give without overflow checks
WrappingMul(a, n) == Wrapped(NatMul(a, n))
WrappingAdd(a, b) == Wrapped(NatAdd(a, b))

\* mutation: the occurrence is recorded at depth 0
AtomBlock_DepthZero(name, depth, c) == [atom_name |-> name, parenthesis_depth |-> 0, count |-> c]

AtomBlock(name, depth, c) == [atom_name |-> name, parenthesis_depth |-> depth, count |-> c]

(***************************************************************************)
(* The scan loop.                                                          *)
(***************************************************************************)
\* mutation: the loop goes on after an error was raised
Scanning_AfterError == cursor_index < Len(formula)

Scanning == result = Pending /\ cursor_index < Len(formula)

current_char == formula[cursor_index + 1]

maybe_next_char ==
    IF cursor_index < Len(formula) - 1 THEN formula[cursor_index + 2] ELSE None

\* mutation: the depth check is off by one
DepthUnderflow_OffByOne(d) == d < -1

DepthUnderflow(d) == d < 0

\* mutation: the lookahead for a two-letter symbol is dropped
SearchAtom_OneLetter(cur, next) == <<cur>>

SearchAtom(cur, next) == IF next \in Lower THEN <<cur, next>> ELSE <<cur>>

AtomExists(a) == a \in periodic_table

\* mutation: the lookahead for a two-digit number is dropped
CountString_OneDigit(cur, next) == <<cur>>

\* mutation: the character after a digit is taken whatever it is
CountString_AnyNext(cur, next) == IF next # None THEN <<cur, next>> ELSE <<cur>>

CountString(cur, next) == IF next \in Digit THEN <<cur, next>> ELSE <<cur>>

ParseOk(s) == s # <<>> /\ \A i \in DOMAIN s : s[i] \in Digit

RECURSIVE ParseUsize(_)
ParseUsize(s) ==
    IF s = <<>> THEN 0
    ELSE 10 * ParseUsize(SubSeq(s, 1, Len(s) - 1)) + DigitValue(s[Len(s)])

IsClosePrevious(p) == p \in CloseChars

\* mutation: the lowercase range is a..z
IsAtomPrevious_AnyLower(p) == p \in Lower \/ p \in Upper

IsAtomPrevious(p) == p = "a" \/ p \in Upper

\* mutation: the depth comparison is not strict
MultiplyBlocks_Inclusive(blocks, depth, n) ==
    [i \in DOMAIN blocks |->
        IF blocks[i].parenthesis_depth >= depth
        THEN [blocks[i] EXCEPT !.count = WrappingMul(@, n)]
        ELSE blocks[i]]

\* a multiplication of the loop over the occurrences overflows
MultiplyOverflows(blocks, depth, n) ==
    \E i \in DOMAIN blocks :
        blocks[i].parenthesis_depth > depth /\ Overflows(NatMul(blocks[i].count, n))

\* the occurrences after the loop, each multiplication wrapping
MultiplyBlocks(blocks, depth, n) ==
    [i \in DOMAIN blocks |->
        IF blocks[i].parenthesis_depth > depth
        THEN [blocks[i] EXCEPT !.count = WrappingMul(@, n)]
        ELSE blocks[i]]

\* mutation: the number is added to the count
SetLastCount_Add(blocks, n) == [blocks EXCEPT ![Len(blocks)].count = WrappingAdd(@, NatOf(n))]

SetLastCount(blocks, n) == [blocks EXCEPT ![Len(blocks)].count = NatOf(n)]

OpenGroup ==
    /\ Scanning
    /\ current_char \in OpenChars
    /\ parenthesis_depth' = parenthesis_depth + 1
    /\ cursor_index' = cursor_index + 1
    /\ previous_char' = current_char
    /\ UNCHANGED <<formula, atom_blocks, result, overflow_checks>>
    /\ UNCHANGED <<calls, casvars, cevars, cleanvars, pubchemvars, filtervars>>

CloseGroup ==
    /\ Scanning
    /\ current_char \in CloseChars
    /\ parenthesis_depth' = parenthesis_depth - 1
    /\ IF DepthUnderflow(parenthesis_depth')
       THEN /\ result' = Err("UnbalancedParenthesis", <<>>)
            /\ UNCHANGED <<cursor_index, previous_char>>
       ELSE /\ cursor_index' = cursor_index + 1
            /\ previous_char' = current_char
            /\ UNCHANGED result
    /\ UNCHANGED <<formula, atom_blocks, overflow_checks>>
    /\ UNCHANGED <<calls, casvars, cevars, cleanvars, pubchemvars, filtervars>>

AtomToken ==
    /\ Scanning
    /\ current_char \in Upper
    /\ LET search_atom == SearchAtom(current_char, maybe_next_char)
       IN IF AtomExists(search_atom)
          THEN /\ atom_blocks' = Append(atom_blocks,
                                        AtomBlock(search_atom, parenthesis_depth, NatOf(1)))
               /\ cursor_index' = cursor_index + Len(search_atom)
               /\ previous_char' = current_char
               /\ UNCHANGED result
          ELSE /\ result' = Err("UnknowAtom", search_atom)
               /\ UNCHANGED <<atom_blocks, cursor_index, previous_char>>
    /\ UNCHANGED <<formula, parenthesis_depth, overflow_checks>>
    /\ UNCHANGED <<calls, casvars, cevars, cleanvars, pubchemvars, filtervars>>

DigitToken ==
    /\ Scanning
    /\ current_char \in Digit
    /\ LET count_string == CountString(current_char, maybe_next_char)
           count == ParseUsize(count_string)
       IN IF ~ParseOk(count_string)
          THEN /\ result' = Err("CanNotParseNumber", count_string)
               /\ UNCHANGED <<atom_blocks, cursor_index, previous_char>>
          ELSE IF IsClosePrevious(previous_char)
          THEN IF overflow_checks /\ MultiplyOverflows(atom_blocks, parenthesis_depth, count)
               THEN /\ result' = Panic("attempt to multiply with overflow")
                    /\ UNCHANGED <<atom_blocks, cursor_index, previous_char>>
               ELSE /\ atom_blocks' = MultiplyBlocks(atom_blocks, parenthesis_depth, count)
                    /\ cursor_index' = cursor_index + Len(count_string)
                    /\ previous_char' = current_char
                    /\ UNCHANGED result
          ELSE IF IsAtomPrevious(previous_char)
          THEN IF atom_blocks = <<>>
               THEN /\ result' = Err("NumberAfterUnknowAtom", <<>>)
                    /\ UNCHANGED <<atom_blocks, cursor_index, previous_char>>
               ELSE /\ atom_blocks' = SetLastCount(atom_blocks, count)
                    /\ cursor_index' = cursor_index + Len(count_string)
                    /\ previous_char' = current_char
                    /\ UNCHANGED result
          ELSE /\ cursor_index' = cursor_index + Len(count_string)
               /\ previous_char' = current_char
               /\ UNCHANGED <<atom_blocks, result>>
    /\ UNCHANGED <<formula, parenthesis_depth, overflow_checks>>
    /\ UNCHANGED <<calls, casvars, cevars, cleanvars, pubchemvars, filtervars>>

OtherChar ==
    /\ Scanning
    /\ current_char \notin OpenChars \cup CloseChars \cup Upper \cup Digit
    /\ cursor_index' = cursor_index + 1
    /\ previous_char' = current_char
    /\ UNCHANGED <<formula, parenthesis_depth, atom_blocks, result, overflow_checks>>
    /\ UNCHANGED <<calls, casvars, cevars, cleanvars, pubchemvars, filtervars>>

(***************************************************************************)
(* Aggregation and formatting.                                             *)
(***************************************************************************)
\* atom_count_map after the loop over the occurrences, each addition wrapping
RECURSIVE AtomCountMap(_)
AtomCountMap(blocks) ==
    IF blocks = <<>> THEN <<>>
    ELSE LET map == AtomCountMap(SubSeq(blocks, 1, Len(blocks) - 1))
             atom_block == blocks[Len(blocks)]
         IN IF atom_block.atom_name \in DOMAIN map
            THEN [map EXCEPT ![atom_block.atom_name] = WrappingAdd(@, atom_block.count)]
            ELSE [k \in DOMAIN map \cup {atom_block.atom_name} |->
                     IF k = atom_block.atom_name THEN atom_block.count ELSE map[k]]

\* an addition of the loop over the occurrences overflows
RECURSIVE AddOverflows(_)
AddOverflows(blocks) ==
    IF blocks = <<>> THEN FALSE
    ELSE LET earlier == SubSeq(blocks, 1, Len(blocks) - 1)
             atom_block == blocks[Len(blocks)]
         IN \/ AddOverflows(earlier)
            \/ /\ atom_block.atom_name \in DOMAIN AtomCountMap(earlier)
               /\ Overflows(NatAdd(AtomCountMap(earlier)[atom_block.atom_name],
                                   atom_block.count))

\* format!("{}", usize): the decimal digits
RECURSIVE FormatUsize(_)
FormatUsize(n) ==
    CHOOSE text \in {(IF Canonical(dm.q) = <<>> THEN <<>> ELSE FormatUsize(Canonical(dm.q)))
                        \o <<DigitChar(dm.r)>> : dm \in {NatDivFrom(n, 10, Len(n), 0)}} : TRUE

\* Ord for String: code points left to right, a proper prefix first.
RECURSIVE StringLess(_, _)
StringLess(a, b) ==
    IF b = <<>> THEN FALSE
    ELSE IF a = <<>> THEN TRUE
    ELSE IF a[1] # b[1] THEN CharCode(a[1]) < CharCode(b[1])
    ELSE StringLess(Tail(a), Tail(b))

RECURSIVE SortedKeys(_)
SortedKeys(keys) ==
    IF keys = {} THEN <<>>
    ELSE LET first == CHOOSE k \in keys : \A o \in keys \ {k} : StringLess(k, o)
         IN <<first>> \o SortedKeys(keys \ {first})

EmitAtom(atom_name, atom_count) ==
    IF atom_count = NatOf(1) THEN atom_name ELSE atom_name \o FormatUsize(atom_count)

EmitIfPresent(map, key) ==
    IF key \in DOMAIN map THEN EmitAtom(key, map[key]) ELSE <<>>

RECURSIVE EmitKeys(_, _)
EmitKeys(map, keys) ==
    IF keys = <<>> THEN <<>>
    ELSE EmitAtom(keys[1], map[keys[1]]) \o EmitKeys(map, Tail(keys))

\* mutation: H is emitted before C
FinalFormula_HydrogenFirst(map) ==
    EmitIfPresent(map, <<"H">>)
        \o EmitIfPresent(map, <<"C">>)
        \o EmitKeys(map, SortedKeys(DOMAIN map \ {<<"C">>, <<"H">>}))

FinalFormula(map) ==
    EmitIfPresent(map, <<"C">>)
        \o EmitIfPresent(map, <<"H">>)
        \o EmitKeys(map, SortedKeys(DOMAIN map \ {<<"C">>, <<"H">>}))

\* the keys atom_count_map holds when the loop comes to the i-th occurrence
KeysBefore(blocks, i) == {blocks[j].atom_name : j \in 1..(i - 1)}

\* HashMap::contains_key and HashMap::get_mut on a map with these keys
ContainsKey(keys, key) == key \in keys
GetMut(keys, key) == IF key \in keys THEN "Some" ELSE None

\* the occurrences at which contains_key holds and get_mut gives None
AggregationFaults(blocks) ==
    {i \in DOMAIN blocks :
        /\ ContainsKey(KeysBefore(blocks, i), blocks[i].atom_name)
        /\ GetMut(KeysBefore(blocks, i), blocks[i].atom_name) = None}

\* what the function returns once the scan is over
Aggregate(blocks, checks) ==
    IF AggregationFaults(blocks) # {}
    THEN LET i == CHOOSE x \in AggregationFaults(blocks) :
                      \A y \in AggregationFaults(blocks) : x <= y
         IN Err("UnexpectedNoneAtomCount", blocks[i].atom_name)
    ELSE IF checks /\ AddOverflows(blocks)
    THEN Panic("attempt to add with overflow")
    ELSE Ok(FinalFormula(AtomCountMap(blocks)))

Finish ==
    /\ result = Pending
    /\ cursor_index >= Len(formula)
    /\ result' = Aggregate(atom_blocks, overflow_checks)
    /\ UNCHANGED <<formula, cursor_index, parenthesis_depth, previous_char, atom_blocks,
                   overflow_checks>>
    /\ UNCHANGED <<calls, casvars, cevars, cleanvars, pubchemvars, filtervars>>

Init ==
    /\ formula \in Inputs
    /\ cursor_index = 0
    /\ parenthesis_depth = 0
    /\ previous_char = None
    /\ atom_blocks = <<>>
    /\ result = Pending
    /\ overflow_checks \in BOOLEAN
    /\ CallsIdle /\ CasIdle /\ CeIdle /\ CleanIdle /\ PubchemIdle /\ FilterIdle

Next ==
    \/ OpenGroup
    \/ CloseGroup
    \/ AtomToken
    \/ DigitToken
    \/ OtherChar
    \/ Finish

Spec == Init /\ [][Next]_vars

(***************************************************************************)
(* The same function on a value: a call is the record of its parameter,    *)
(* its locals and its return value.  ScanStep is one iteration of the loop *)
(* (or the code after the loop, once the cursor has passed the end), and   *)
(* Run is the whole call.                                                  *)
(***************************************************************************)
NewCall(f) ==
    [formula |-> f, cursor_index |-> 0, parenthesis_depth |-> 0, previous_char |-> None,
     atom_blocks |-> <<>>, result |-> Pending, overflow_checks |-> overflow_checks]

Advance(c, n) ==
    [c EXCEPT !.cursor_index = @ + n, !.previous_char = c.formula[c.cursor_index + 1]]

ScanStep(c) ==
    LET cur == c.formula[c.cursor_index + 1]
        next == IF c.cursor_index < Len(c.formula) - 1
                THEN c.formula[c.cursor_index + 2] ELSE None
        search_atom == SearchAtom(cur, next)
        count_string == CountString(cur, next)
        count == ParseUsize(count_string)
    IN  IF c.result # Pending THEN c
        ELSE IF c.cursor_index >= Len(c.formula)
        THEN [c EXCEPT !.result = Aggregate(c.atom_blocks, c.overflow_checks)]
        ELSE IF cur \in OpenChars
        THEN Advance([c EXCEPT !.parenthesis_depth = @ + 1], 1)
        ELSE IF cur \in CloseChars
        THEN IF DepthUnderflow(c.parenthesis_depth - 1)
             THEN [c EXCEPT !.parenthesis_depth = @ - 1,
                            !.result = Err("UnbalancedParenthesis", <<>>)]
             ELSE Advance([c EXCEPT !.parenthesis_depth = @ - 1], 1)
        ELSE IF cur \in Upper
        THEN IF AtomExists(search_atom)
             THEN Advance([c EXCEPT !.atom_blocks =
                              Append(@, AtomBlock(search_atom, c.parenthesis_depth, NatOf(1)))],
                          Len(search_atom))
             ELSE [c EXCEPT !.result = Err("UnknowAtom", search_atom)]
        ELSE IF cur \in Digit
        THEN IF ~ParseOk(count_string)
             THEN [c EXCEPT !.result = Err("CanNotParseNumber", count_string)]
             ELSE IF IsClosePrevious(c.previous_char)
             THEN IF c.overflow_checks
                     /\ MultiplyOverflows(c.atom_blocks, c.parenthesis_depth, count)
                  THEN [c EXCEPT !.result = Panic("attempt to multiply with overflow")]
                  ELSE Advance([c EXCEPT !.atom_blocks =
                                   MultiplyBlocks(@, c.parenthesis_depth, count)],
                               Len(count_string))
             ELSE IF IsAtomPrevious(c.previous_char)
             THEN IF c.atom_blocks = <<>>
                  THEN [c EXCEPT !.result = Err("NumberAfterUnknowAtom", <<>>)]
                  ELSE Advance([c EXCEPT !.atom_blocks = SetLastCount(@, count)],
                               Len(count_string))
             ELSE Advance(c, Len(count_string))
        ELSE Advance(c, 1)

RECURSIVE Run(_)
Run(c) == IF c.result # Pending THEN c ELSE Run(ScanStep(c))

sort_empirical_formula(f) == Run(NewCall(f)).result

(***************************************************************************)
(* Vocabulary of the properties.  A canonical string is a run of units, a  *)
(* symbol followed by the digits of its count; Units reads a string that   *)
(* way, independently of the scan loop.                                    *)
(***************************************************************************)
Terminated == result # Pending

RECURSIVE DigitRun(_)
DigitRun(s) == IF s # <<>> /\ s[1] \in Digit THEN 1 + DigitRun(Tail(s)) ELSE 0

RECURSIVE Units(_)
Units(s) ==
    IF s = <<>> THEN [ok |-> TRUE, units |-> <<>>]
    ELSE IF s[1] \notin Upper THEN [ok |-> FALSE, units |-> <<>>]
    ELSE LET n == IF Len(s) >= 2 /\ s[2] \in Lower THEN 2 ELSE 1
             d == DigitRun(SubSeq(s, n + 1, Len(s)))
             rest == Units(SubSeq(s, n + d + 1, Len(s)))
         IN [ok |-> rest.ok,
             units |-> <<[sym |-> SubSeq(s, 1, n), digits |-> SubSeq(s, n + 1, n + d)]>>
                          \o rest.units]

\* a before b in the order of the code points, a proper prefix first
LexBefore(a, b) ==
    \E k \in 1..Len(b) :
        /\ k <= Len(a) + 1
        /\ \A i \in 1..(k - 1) : a[i] = b[i]
        /\ (k = Len(a) + 1 \/ CharCode(a[k]) < CharCode(b[k]))

Carbon == <<"C">>
Hydrogen == <<"H">>

HillBefore(a, b) ==
    /\ a # b
    /\ \/ a = Carbon
       \/ a = Hydrogen /\ b # Carbon
       \/ a \notin {Carbon, Hydrogen} /\ b \notin {Carbon, Hydrogen} /\ LexBefore(a, b)

HillOrdered(units) ==
    \A i, j \in DOMAIN units : i < j => HillBefore(units[i].sym, units[j].sym)

\* a count as the canonical form writes it: nothing for 1, else decimal digits
BareCount(digits) == digits = <<>> \/ (digits[1] # "0" /\ digits # <<"1">>)

IsCanonical(s) ==
    LET u == Units(s)
    IN /\ u.ok
       /\ \A i \in DOMAIN u.units :
            u.units[i].sym \in periodic_table /\ BareCount(u.units[i].digits)
       /\ HillOrdered(u.units)

CountsBelow100(s) ==
    \A i \in DOMAIN Units(s).units : Len(Units(s).units[i].digits) <= 2

\* a < b, for natural numbers
NatLess(a, b) ==
    \/ Len(a) < Len(b)
    \/ /\ Len(a) = Len(b)
       /\ \E i \in DOMAIN a : a[i] < b[i] /\ \A j \in (i + 1)..Len(a) : a[j] = b[j]

\* the natural number that decimal digits write
RECURSIVE NatOfDecimal(_)
NatOfDecimal(digits) ==
    IF digits = <<>> THEN <<>>
    ELSE NatAdd(NatMul(NatOfDecimal(SubSeq(digits, 1, Len(digits) - 1)), 10),
                NatOf(DigitValue(digits[Len(digits)])))

\* the sum, a natural number, of the counts of the occurrences of name
RECURSIVE TotalOf(_, _)
TotalOf(blocks, name) ==
    IF blocks = <<>> THEN <<>>
    ELSE NatAdd(IF Head(blocks).atom_name = name THEN Head(blocks).count ELSE <<>>,
                TotalOf(Tail(blocks), name))

IsDecimalOf(digits, n) ==
    /\ digits # <<>>
    /\ Len(digits) > 1 => digits[1] # "0"
    /\ NatOfDecimal(digits) = n

\* the token the uppercase arm looks up when the cursor is on position i of s
TokenAt(s, i) ==
    IF i < Len(s) /\ s[i + 1] \in Lower THEN <<s[i], s[i + 1]>> ELSE <<s[i]>>

AtDigit == Scanning /\ current_char \in Digit
AtUpper == Scanning /\ current_char \in Upper
AtClose == Scanning /\ current_char \in CloseChars

DocExample == <<"C", "l", "(", "C", "a", "C", "2", "(", "N", "a", "C", "l", ")", "3", ")", "2", ".", "N", "a", "=", "P">>
DocExampleResult == <<"C", "4", "C", "a", "2", "C", "l", "7", "N", "a", "7", "P">>
DocExampleStated == <<"C", "4", "C", "a", "2", "C", "l", "7", "N", "a", "6">>
Unordered == <<"O", "2", "H", "4", "C", "1">>
UnorderedResult == <<"C", "H", "4", "O", "2">>
UnknownExample == <<"X", "x", "2">>

(***************************************************************************)
(* C1 (as stated): for every canonical formula F, Hill ordered, without    *)
(* brackets, each symbol once, counts bare integers or omitted for 1,      *)
(* sort_empirical_formula(F) returns Ok(F).                                *)
(***************************************************************************)
C1_CanonicalUnchanged ==
    (Terminated /\ IsCanonical(formula)) => result = Ok(formula)

(***************************************************************************)
(* C1 (amended): for every canonical formula F whose counts are all below  *)
(* 100, sort_empirical_formula(F) returns Ok(F).                           *)
(***************************************************************************)
C1_CanonicalBelow100Unchanged ==
    (Terminated /\ IsCanonical(formula) /\ CountsBelow100(formula)) => result = Ok(formula)

C1_Witness ==
    /\ result = Ok(formula)
    /\ IsCanonical(formula)
    /\ Len(Units(formula).units) >= 3
    /\ \E i \in DOMAIN Units(formula).units : Len(Units(formula).units[i].digits) = 2
    /\ \E i \in DOMAIN Units(formula).units : Units(formula).units[i].digits = <<>>

(***************************************************************************)
(* C2 (as stated): sort_empirical_formula("Cl(CaC2(NaCl)3)2.Na=P") returns *)
(* "C4Ca2Cl7Na6".                                                          *)
(***************************************************************************)
C2_DocExampleAsStated ==
    (Terminated /\ formula = DocExample) => result = Ok(DocExampleStated)

(***************************************************************************)
(* C2 (amended): on "Cl(CaC2(NaCl)3)2.Na=P" the group multipliers give     *)
(* Ca=2, C=4, Na=6, Cl=6 inside the outer group, the outer Cl gives Cl=7,  *)
(* and the atoms Na and P that follow the group are counted too: the       *)
(* result is "C4Ca2Cl7Na7P".                                               *)
(***************************************************************************)
C2_DocExample ==
    formula = DocExample =>
        /\ Terminated => result = Ok(DocExampleResult)
        /\ (Len(atom_blocks) >= 5 /\ previous_char = "2" /\ parenthesis_depth = 0) =>
              /\ atom_blocks[1] = AtomBlock(<<"C", "l">>, 0, NatOf(1))
              /\ atom_blocks[2] = AtomBlock(<<"C", "a">>, 1, NatOf(2))
              /\ atom_blocks[3] = AtomBlock(<<"C">>, 1, NatOf(4))
              /\ atom_blocks[4] = AtomBlock(<<"N", "a">>, 2, NatOf(6))
              /\ atom_blocks[5] = AtomBlock(<<"C", "l">>, 2, NatOf(6))

C2_Witness == formula = DocExample /\ result = Ok(DocExampleResult)

(***************************************************************************)
(* C3: every successful output is in Hill order, C first if present, then  *)
(* H if present, then the remaining symbols in strict lexicographic order, *)
(* whatever the order of the atoms in the input; "O2H4C1" gives "CH4O2".   *)
(***************************************************************************)
C3_HillOrder ==
    result.kind = "Ok" =>
        /\ Units(result.text).ok
        /\ HillOrdered(Units(result.text).units)
        /\ formula = Unordered => result.text = UnorderedResult

C3_Witness ==
    /\ result.kind = "Ok"
    /\ Len(Units(result.text).units) >= 3
    /\ ~HillOrdered(Units(formula).units)
    /\ Units(result.text).units[1].sym = Carbon
    /\ Units(result.text).units[2].sym = Hydrogen

(***************************************************************************)
(* C4: in every successful output each symbol recorded during the scan     *)
(* appears exactly once, followed by its total count in decimal, the count *)
(* omitted exactly when the total is 1; nothing else appears.              *)
(***************************************************************************)
C4_EachSymbolOnceWithTotal ==
    result.kind = "Ok" =>
        LET u == Units(result.text)
        IN /\ u.ok
           /\ \A i, j \in DOMAIN u.units : i # j => u.units[i].sym # u.units[j].sym
           /\ {u.units[i].sym : i \in DOMAIN u.units}
                 = {atom_blocks[i].atom_name : i \in DOMAIN atom_blocks}
           /\ \A i \in DOMAIN u.units :
                LET total == TotalOf(atom_blocks, u.units[i].sym)
                IN IF total = NatOf(1) THEN u.units[i].digits = <<>>
                   ELSE IsDecimalOf(u.units[i].digits, total)

\* the 1-based position of the bracket that opened the group closed at position c
RECURSIVE OpenOf(_, _, _)
OpenOf(s, c, nested) ==
    IF c = 0 THEN 0
    ELSE IF s[c] \in OpenChars
         THEN IF nested = 0 THEN c ELSE OpenOf(s, c - 1, nested - 1)
    ELSE IF s[c] \in CloseChars THEN OpenOf(s, c - 1, nested + 1)
    ELSE OpenOf(s, c - 1, nested)

\* every uppercase letter the scan passes starts one atom token
UppercaseBefore(s, p) == Cardinality({i \in 1..(p - 1) : s[i] \in Upper})

\* the occurrences recorded before the group that was just closed was opened
RecordedBeforeGroup == UppercaseBefore(formula, OpenOf(formula, cursor_index - 1, 0))

NumberAtCursor == ParseUsize(CountString(current_char, maybe_next_char))

(***************************************************************************)
(* C5: a group multiplier N scales by N the counts of exactly the          *)
(* occurrences scanned inside the bracket group it follows; occurrences    *)
(* scanned outside that group keep their counts.                           *)
(***************************************************************************)
C5_MultiplierScalesOnlyItsGroup ==
    [][(AtDigit /\ previous_char \in CloseChars) =>
          /\ Len(atom_blocks') = Len(atom_blocks)
          /\ \A i \in DOMAIN atom_blocks :
                atom_blocks'[i].count =
                    IF i > RecordedBeforeGroup
                    THEN NatMul(atom_blocks[i].count, NumberAtCursor)
                    ELSE atom_blocks[i].count]_vars

(***************************************************************************)
(* C6: a closing bracket met while the depth is 0 makes the call fail with *)
(* UnbalancedParenthesis, as on ")H2O"; no canonical string is returned.   *)
(***************************************************************************)
C6_UnmatchedCloseFails ==
    [][(AtClose /\ parenthesis_depth = 0) =>
          result' = Err("UnbalancedParenthesis", <<>>)]_vars

C6_Witness ==
    /\ result = Err("UnbalancedParenthesis", <<>>)
    /\ formula = <<")", "H", "2", "O">>
    /\ cursor_index = 0

(***************************************************************************)
(* C7: an uppercase-led token of one or two characters that is not in the  *)
(* symbol table makes the call fail with UnknowAtom carrying that token:   *)
(* "Xx2" fails with UnknowAtom("Xx"), a lone unknown letter with that      *)
(* letter.                                                                 *)
(***************************************************************************)
C7_UnknownAtomFails ==
    [][(AtUpper /\ TokenAt(formula, cursor_index + 1) \notin periodic_table) =>
          result' = Err("UnknowAtom", TokenAt(formula, cursor_index + 1))]_vars

C7_Witness ==
    /\ formula = UnknownExample
    /\ result = Err("UnknowAtom", <<"X", "x">>)

(***************************************************************************)
(* C8 (as stated): a digit token whose preceding consumed token is neither *)
(* an atom nor a group close makes the parse fail with the                 *)
(* number-without-context error.                                           *)
(***************************************************************************)
C8_DigitWithoutContextFails ==
    [][(AtDigit /\ previous_char \notin Upper \cup CloseChars) =>
          result'.kind = "NumberAfterUnknowAtom"]_vars

(***************************************************************************)
(* C8 (amended): a digit token whose preceding consumed token is neither   *)
(* an atom nor a group close is accepted and the scan goes on past it,     *)
(* except after a lowercase "a" met before any atom was recorded, where    *)
(* the parse fails with NumberAfterUnknowAtom.                             *)
(***************************************************************************)
C8_DigitWithoutContextAccepted ==
    [][(AtDigit /\ previous_char \notin Upper \cup CloseChars) =>
          IF previous_char = "a" /\ atom_blocks = <<>>
          THEN result' = Err("NumberAfterUnknowAtom", <<>>)
          ELSE result' = Pending /\ cursor_index' > cursor_index]_vars

C8_Witness ==
    /\ result.kind = "Ok"
    /\ formula # <<>>
    /\ formula[1] \in Digit
    /\ \E i \in DOMAIN formula : i > 1 /\ formula[i] \in Digit /\ formula[i - 1] = "-"

\* no closing bracket of s is met at depth 0
ClosesMatched(s) ==
    \A p \in DOMAIN s :
        Cardinality({i \in 1..p : s[i] \in CloseChars})
            <= Cardinality({i \in 1..p : s[i] \in OpenChars})

TokensResolve(s) ==
    \A p \in DOMAIN s : s[p] \in Upper => TokenAt(s, p) \in periodic_table

(***************************************************************************)
(* C9: every input whose closing brackets are all matched by an earlier    *)
(* opening bracket and whose uppercase-led tokens all resolve in the       *)
(* symbol table returns Ok, whatever digits, lowercase letters and other   *)
(* characters it contains and wherever they occur.                         *)
(***************************************************************************)
C9_WellFormedInputsParse ==
    (Terminated /\ ClosesMatched(formula) /\ TokensResolve(formula)) => result.kind = "Ok"

(***************************************************************************)
(* C10: when the two-character token under the cursor is not in the symbol *)
(* table but its uppercase letter is, the scanner records the one-letter   *)
(* symbol and advances by one character.                                   *)
(***************************************************************************)
C10_FallsBackToOneLetter ==
    [][(/\ AtUpper
        /\ maybe_next_char \in Lower
        /\ <<current_char, maybe_next_char>> \notin periodic_table
        /\ <<current_char>> \in periodic_table) =>
          /\ result' = Pending
          /\ atom_blocks' = Append(atom_blocks, AtomBlock(<<current_char>>, parenthesis_depth, NatOf(1)))
          /\ cursor_index' = cursor_index + 1]_vars

\* the variables of the call in progress, as a call record
ThisCall ==
    [formula |-> formula, cursor_index |-> cursor_index,
     parenthesis_depth |-> parenthesis_depth, previous_char |-> previous_char,
     atom_blocks |-> atom_blocks, result |-> result, overflow_checks |-> overflow_checks]

\* the loop and the function on values are the same program
StepsAgree == [][ThisCall' = ScanStep(ThisCall)]_vars

\* the call has returned an error
IsError == result.kind \notin {"Pending", "Ok", "Panic"}

\* the token on which a failed scan stopped
OffendingLength ==
    IF result.kind = "UnknowAtom" THEN Len(result.text)
    ELSE IF result.kind = "UnbalancedParenthesis" THEN 1
    ELSE Len(CountString(current_char, maybe_next_char))

(***************************************************************************)
(* C11: errors are terminal and carry no partial output.  The scan stops   *)
(* at the leftmost offending token: what precedes it parses without error, *)
(* the error is the one that token raises whatever follows it, a returned  *)
(* result never changes, and an Ok result is returned only once the whole  *)
(* input has been scanned.                                                 *)
(***************************************************************************)
C11_ErrorsAreTerminal ==
    /\ [](IsError =>
            /\ cursor_index < Len(formula)
            /\ sort_empirical_formula(SubSeq(formula, 1, cursor_index)).kind = "Ok"
            /\ sort_empirical_formula(SubSeq(formula, 1, cursor_index + OffendingLength))
                  = result
            /\ result.text \in {<<>>, TokenAt(formula, cursor_index + 1)})
    /\ [](result.kind = "Ok" => cursor_index >= Len(formula))
    /\ [][Terminated => UNCHANGED vars]_vars

C11_Witness ==
    /\ IsError
    /\ cursor_index > 0
    /\ atom_blocks # <<>>
    /\ cursor_index + OffendingLength < Len(formula)

\* the digit token that was just consumed started at position p (1-based)
DigitTokenFrom(p) ==
    /\ p >= 1
    /\ cursor_index - p \in {0, 1}
    /\ \A i \in p..cursor_index : formula[i] \in Digit
    /\ previous_char = formula[p]

JustAfterAtom ==
    \E p \in 2..cursor_index :
        /\ DigitTokenFrom(p)
        /\ \/ formula[p - 1] \in Upper
           \/ p >= 3 /\ formula[p - 1] \in Lower /\ formula[p - 2] \in Upper
                     /\ <<formula[p - 2], formula[p - 1]>> \in periodic_table

(***************************************************************************)
(* C17: when a digit token N directly follows a closing bracket, every     *)
(* occurrence already recorded whose depth is strictly greater than the    *)
(* depth restored by that close has its count multiplied by N in place,    *)
(* and the occurrences of lesser or equal depth keep their counts.         *)
(***************************************************************************)
C17_MultiplierByDepth ==
    [][(AtDigit /\ previous_char \in CloseChars) =>
          /\ result' = Pending
          /\ Len(atom_blocks') = Len(atom_blocks)
          /\ \A i \in DOMAIN atom_blocks :
                /\ atom_blocks'[i].atom_name = atom_blocks[i].atom_name
                /\ atom_blocks'[i].parenthesis_depth = atom_blocks[i].parenthesis_depth
                /\ atom_blocks'[i].count =
                      IF atom_blocks[i].parenthesis_depth > parenthesis_depth
                      THEN NatMul(atom_blocks[i].count, NumberAtCursor)
                      ELSE atom_blocks[i].count]_vars

(***************************************************************************)
(* C19: when a digit token N directly follows an atom token, the count of  *)
(* the most recently appended occurrence is set to N and no other          *)
(* occurrence changes.                                                     *)
(***************************************************************************)
C19_AtomCountOverride ==
    [][(AtDigit /\ previous_char \in Upper) =>
          /\ result' = Pending
          /\ atom_blocks # <<>>
          /\ Len(atom_blocks') = Len(atom_blocks)
          /\ \A i \in DOMAIN atom_blocks :
                /\ atom_blocks'[i].atom_name = atom_blocks[i].atom_name
                /\ atom_blocks'[i].parenthesis_depth = atom_blocks[i].parenthesis_depth
                /\ atom_blocks'[i].count =
                      IF i = Len(atom_blocks) THEN NatOf(NumberAtCursor)
                      ELSE atom_blocks[i].count]_vars

C19_Witness ==
    /\ result = Pending
    /\ JustAfterAtom
    /\ Len(atom_blocks) >= 2
    /\ ~NatLess(atom_blocks[Len(atom_blocks)].count, NatOf(2))
    /\ atom_blocks[1].count # atom_blocks[Len(atom_blocks)].count

(***************************************************************************)
(* C20: a digit token changes a recorded count only when the token         *)
(* consumed just before it is an atom or a group close; after any other    *)
(* character (a separator, a lowercase letter that is not part of a        *)
(* symbol, a group-open, an earlier digit token) every recorded occurrence *)
(* is left unchanged.                                                      *)
(***************************************************************************)
C20_OnlyAtomOrCloseGivesMeaning ==
    [][(AtDigit /\ previous_char \notin Upper \cup CloseChars /\ result' = Pending) =>
          atom_blocks' = atom_blocks]_vars

\* the digits that follow position q of s
DigitsAfter(s, q) == SubSeq(s, q + 1, q + DigitRun(SubSeq(s, q + 1, Len(s))))

\* the product of the group multipliers that lie within the first n characters of s
RECURSIVE MultiplierProduct(_, _)
MultiplierProduct(s, n) ==
    IF n = 0 THEN NatOf(1)
    ELSE IF s[n] \in CloseChars /\ DigitsAfter(s, n) # <<>>
    THEN NatMul(MultiplierProduct(s, n - 1), ParseUsize(DigitsAfter(s, n)))
    ELSE MultiplierProduct(s, n - 1)

\* the group multipliers consumed so far
MultipliersConsumed ==
    Cardinality({q \in 2..cursor_index : formula[q] \in Digit /\ formula[q - 1] \in CloseChars})

\* in a chain the atom of the innermost group is the last one written
InnermostPosition(s) == CHOOSE a \in DOMAIN s : s[a] \in Upper /\ \A b \in (a + 1)..Len(s) : s[b] \notin Upper

InlineCount(s) ==
    LET digits == DigitsAfter(s, InnermostPosition(s) + Len(TokenAt(s, InnermostPosition(s))) - 1)
    IN IF digits = <<>> THEN 1 ELSE ParseUsize(digits)

(***************************************************************************)
(* C18: for an input that is a single chain of nested groups, each closed  *)
(* and followed by a multiplier, the atom of the innermost group ends with *)
(* its inline count times the product of the multipliers of all the groups *)
(* that enclose it, the multipliers being applied innermost first as the   *)
(* scan proceeds.                                                          *)
(***************************************************************************)
C18_NestedMultipliersCompose ==
    formula \in ChainInputs \cup {OverflowingProduct} =>
        /\ ~IsError
        /\ MultipliersConsumed >= 1 =>
              LET innermost == atom_blocks[Len(atom_blocks)]
              IN /\ innermost.atom_name = TokenAt(formula, InnermostPosition(formula))
                 /\ innermost.count =
                       NatMul(MultiplierProduct(formula, cursor_index - 1), InlineCount(formula))
        /\ result.kind = "Ok" =>
              LET units == Units(result.text).units
                  total == NatMul(MultiplierProduct(formula, Len(formula)), InlineCount(formula))
              IN \E i \in DOMAIN units :
                    /\ units[i].sym = TokenAt(formula, InnermostPosition(formula))
                    /\ IsDecimalOf(units[i].digits, total)

(***************************************************************************)
(* Concurrent invocations.  sort_empirical_formula takes its input by      *)
(* reference and keeps its cursor, depth, previous character, occurrence   *)
(* list and symbol table in locals of the call (formula.rs:51-188), so a   *)
(* call is the record of its locals and a step of one call is ScanStep on  *)
(* that record.  The calls take their steps in any order.                  *)
(***************************************************************************)
NCalls == 2

CallFormulas ==
    {<<"(", "C", ")", "2">>,
     <<"C", ")">>,
     <<"H", "2", "O">>,
     <<"(", "N", ")", "2", "(", "O", ")", "3">>,
     <<"X", "x", "2">>,
     <<"2", "C">>,
     <<"C", "l", "(", "H", "2", ")", "1", "0">>,
     <<>>}

ScanLocalsIdle ==
    /\ formula = <<>>
    /\ cursor_index = 0
    /\ parenthesis_depth = 0
    /\ previous_char = None
    /\ atom_blocks = <<>>
    /\ result = Pending

ScanIdle == ScanLocalsIdle /\ overflow_checks = FALSE

\* a call whose depth is the one of the first call
Locals_SharedDepth(cs, i) == [cs[i] EXCEPT !.parenthesis_depth = cs[1].parenthesis_depth]

\* the locals a call works on: its own
Locals(cs, i) == cs[i]

Step(i) ==
    /\ calls[i].result = Pending
    /\ calls' = [calls EXCEPT ![i] = ScanStep(Locals(calls, i))]
    /\ UNCHANGED <<scanvars, casvars, cevars, cleanvars, pubchemvars, filtervars>>

InitCalls ==
    /\ overflow_checks \in BOOLEAN
    /\ calls \in [1..NCalls -> {NewCall(f) : f \in CallFormulas}]
    /\ ScanLocalsIdle /\ CasIdle /\ CeIdle /\ CleanIdle /\ PubchemIdle /\ FilterIdle

NextCalls == \E i \in 1..NCalls : Step(i)

SpecCalls == InitCalls /\ [][NextCalls]_vars

\* the call c run alone from its start until it has consumed n characters
RECURSIVE RunUntil(_, _)
RunUntil(c, n) ==
    IF c.result # Pending \/ c.cursor_index >= n THEN c ELSE RunUntil(ScanStep(c), n)

(***************************************************************************)
(* C12: parse invocations are independent.  However the steps of several   *)
(* calls interleave, each call is at every moment in the state it reaches  *)
(* when run alone over the same part of its input, and it returns exactly  *)
(* the result it returns when run alone.                                   *)
(***************************************************************************)
C12_CallsIndependent ==
    \A i \in DOMAIN calls :
        /\ calls[i].result = Pending =>
              calls[i] = RunUntil(NewCall(calls[i].formula), calls[i].cursor_index)
        /\ calls[i].result # Pending =>
              calls[i].result = sort_empirical_formula(calls[i].formula)

C12_Witness ==
    /\ calls # <<>>
    /\ calls[1].formula = <<"C", ")">>
    /\ calls[1].result.kind = "UnbalancedParenthesis"
    /\ calls[2].formula = <<"(", "N", ")", "2", "(", "O", ")", "3">>
    /\ calls[2].result = Ok(<<"N", "6", "O", "3">>)

(***************************************************************************)
(* Registry numbers: is_cas_number (casnumber.rs) and is_ce_number         *)
(* (cenumber.rs).  A number is a sequence of characters; the regular       *)
(* expression is anchored at both ends, so the whole text must have the    *)
(* shape, and its character classes are [0-9].                             *)
(***************************************************************************)
MaxShortGroup == 3

DigitStrings(digits, shortest, longest) == UNION {[1..n -> digits] : n \in shortest..longest}

Dash == <<"-">>

CheckDigits == {<<d>> : d \in Digit} \cup {<<>>, <<"A">>, <<"5", "5">>}

Garbage == UNION {[1..n -> {"1", "-", "A"}] : n \in 0..4}

CasInputs ==
    {g1 \o Dash \o g2 \o Dash \o c :
        g1 \in DigitStrings({"0", "1", "7", "9"}, 1, MaxShortGroup)
               \cup {<<"7", "7", "3", "2">>, <<"1", "0", "0", "2", "8">>,
                     <<"1", "0", "0", "6", "8", "3">>, <<"1", "2", "3", "4", "5", "6", "7">>,
                     <<"1", "2", "3", "4", "5", "6", "7", "8">>,
                     <<"0", "0", "0", "0", "0", "0", "0", "0">>},
        g2 \in DigitStrings({"1", "8"}, 1, 3),
        c \in CheckDigits}
    \cup Garbage
    \cup {<<"1", "0", "0", "-", "0", "0", "-", "5">>,
          <<"1", "0", "0", "-", "0", "0", "-", "6">>,
          <<"1", "2", "3", "-", "4", "5", "-", "6">>,
          <<"1", "0", "0", "-", "0", "0", "0", "-">>,
          <<"A", "B", "C", "-", "0", "0", "0", "-", "5">>,
          <<"1", "0", "0", "-", "0", "0", "-", "5", "\n">>,
          <<" ", "1", "0", "0", "-", "0", "0", "-", "5">>,
          <<"1", "0", "0", "-", "0", "0", "-", "5", "-", "5">>,
          <<"1", "0", "0", "0", "0", "5">>,
          <<"1", "0", "0", "6", "8", "3", "-", "9", "7", "-", "4">>,
          <<"1", "2", "1", "1", "5", "8", "-", "5", "8", "-", "5">>,
          <<"1", "1", "2", "0", "-", "7", "1", "-", "4">>}

AllDigits(s) == \A i \in DOMAIN s : s[i] \in Digit

\* re.captures(number) returning None
NoCaptures == [matched |-> FALSE]

\* re.captures: the three named groups when the whole text matches
CasCaptures(number) ==
    LET n == Len(number) - 5
    IN IF /\ n \in 2..7
          /\ AllDigits(SubSeq(number, 1, n))
          /\ number[n + 1] = "-"
          /\ AllDigits(SubSeq(number, n + 2, n + 3))
          /\ number[n + 4] = "-"
          /\ number[n + 5] \in Digit
       THEN [matched |-> TRUE,
             group1 |-> SubSeq(number, 1, n),
             group2 |-> SubSeq(number, n + 2, n + 3),
             checkdigit |-> number[n + 5]]
       ELSE NoCaptures

\* chars().rev().collect()
Reversed(s) == [i \in 1..Len(s) |-> s[Len(s) + 1 - i]]

\* one for loop: total += multiplier * digit; multiplier += 1
RECURSIVE SumDigits(_, _, _)
SumDigits(chars, multiplier, total) ==
    IF chars = <<>> THEN [multiplier |-> multiplier, total |-> total]
    ELSE SumDigits(Tail(chars), multiplier + 1, total + multiplier * DigitValue(Head(chars)))

CasOk(b) == [kind |-> "Ok", value |-> b]
CasErr(e) == [kind |-> e]

\* the second loop starting again from multiplier 1
CasTotal_RestartMultiplier(group1, group2) ==
    SumDigits(Reversed(group1), 1, SumDigits(Reversed(group2), 1, 0).total).total

\* the two loops, group2 reversed and then group1 reversed
CasTotal(group1, group2) ==
    LET after2 == SumDigits(Reversed(group2), 1, 0)
    IN SumDigits(Reversed(group1), after2.multiplier, after2.total).total

is_cas_number(number) ==
    LET captures == CasCaptures(number)
    IN IF ~captures.matched THEN CasErr("DigitGroupsCaptureError")
       ELSE LET modulo == CasTotal(captures.group1, captures.group2) % 10
            IN CasOk(DigitValue(captures.checkdigit) = modulo)

IsCasNumber ==
    /\ cas_result = NotCalled
    /\ cas_result' = is_cas_number(cas_number)
    /\ UNCHANGED <<cas_number, scanvars, calls, cevars, cleanvars, pubchemvars, filtervars>>

InitCas ==
    /\ cas_number \in CasInputs
    /\ cas_result = NotCalled
    /\ ScanIdle /\ CallsIdle /\ CeIdle /\ CleanIdle /\ PubchemIdle /\ FilterIdle

NextCas == IsCasNumber

SpecCas == InitCas /\ [][NextCas]_vars

\* the parts of s between the occurrences of sep
RECURSIVE SplitOn(_, _)
SplitOn(s, sep) ==
    IF \A i \in DOMAIN s : s[i] # sep THEN <<s>>
    ELSE LET k == CHOOSE i \in DOMAIN s : s[i] = sep /\ \A j \in 1..(i - 1) : s[j] # sep
         IN <<SubSeq(s, 1, k - 1)>> \o SplitOn(SubSeq(s, k + 1, Len(s)), sep)

\* the sum of i * d_i over the first n digits counted from the right of ds
RECURSIVE WeightedFromRight(_, _)
WeightedFromRight(ds, n) ==
    IF n = 0 THEN 0
    ELSE n * DigitValue(ds[Len(ds) + 1 - n]) + WeightedFromRight(ds, n - 1)

\* the sum of i * d_i over the first n digits counted from the left of ds
RECURSIVE WeightedFromLeft(_, _)
WeightedFromLeft(ds, n) ==
    IF n = 0 THEN 0
    ELSE n * DigitValue(ds[n]) + WeightedFromLeft(ds, n - 1)

\* s is digit groups of the given lengths separated by '-' and ended by one check digit
HasShape(s, lengths1, lengths2) ==
    LET parts == SplitOn(s, "-")
    IN /\ Len(parts) = 3
       /\ Len(parts[1]) \in lengths1 /\ AllDigits(parts[1])
       /\ Len(parts[2]) \in lengths2 /\ AllDigits(parts[2])
       /\ Len(parts[3]) = 1 /\ AllDigits(parts[3])

LeadingDigits(s) == SplitOn(s, "-")[1] \o SplitOn(s, "-")[2]
CheckDigitOf(s) == DigitValue(SplitOn(s, "-")[3][1])

(***************************************************************************)
(* C13: is_cas_number(s) is Err(DigitGroupsCaptureError) when s is not     *)
(* exactly 2 to 7 digits, '-', 2 digits, '-', 1 digit; otherwise it is     *)
(* Ok(true) exactly when the check digit equals the sum of i * d_i modulo  *)
(* 10, d_1 being the rightmost digit before the check digit and i growing  *)
(* by one per digit to the left across both groups, and Ok(false)          *)
(* otherwise.                                                              *)
(***************************************************************************)
C13_CasCheckDigit ==
    cas_result # NotCalled =>
        IF HasShape(cas_number, 2..7, {2})
        THEN LET ds == LeadingDigits(cas_number)
             IN cas_result = CasOk(CheckDigitOf(cas_number) = WeightedFromRight(ds, Len(ds)) % 10)
        ELSE cas_result = CasErr("DigitGroupsCaptureError")

C13_Witness ==
    /\ cas_number = <<"1", "2", "3", "4", "5", "6", "7", "-", "8", "1", "-", "7">>
    /\ cas_result = CasOk(TRUE)

(***************************************************************************)
(* is_ce_number                                                            *)
(***************************************************************************)
CeInputs ==
    {g1 \o Dash \o g2 \o Dash \o c :
        g1 \in DigitStrings({"0", "2", "9"}, 2, 4),
        g2 \in DigitStrings({"1", "9"}, 2, 4),
        c \in CheckDigits}
    \cup Garbage
    \cup {<<"2", "0", "0", "-", "0", "0", "1", "-", "8">>,
          <<"2", "0", "2", "-", "8", "5", "3", "-", "6">>,
          <<"2", "0", "0", "-", "0", "0", "1", "-", "8", "\n">>,
          <<"2", "0", "0", "0", "0", "1", "8">>,
          <<"2", "0", "0", "-", "0", "0", "1", "-", "8", "-", "8">>,
          <<"A", "B", "C", "-", "0", "0", "1", "-", "8">>}

CeCaptures(number) ==
    IF /\ Len(number) = 9
       /\ AllDigits(SubSeq(number, 1, 3))
       /\ number[4] = "-"
       /\ AllDigits(SubSeq(number, 5, 7))
       /\ number[8] = "-"
       /\ number[9] \in Digit
    THEN [matched |-> TRUE,
          group1 |-> SubSeq(number, 1, 3),
          group2 |-> SubSeq(number, 5, 7),
          checkdigit |-> number[9]]
    ELSE NoCaptures

\* both groups read from their right end
CeTotal_Reversed(group1, group2) == CasTotal(group2, group1)

\* the two loops, group1 and then group2, each left to right
CeTotal(group1, group2) ==
    LET after1 == SumDigits(group1, 1, 0)
    IN SumDigits(group2, after1.multiplier, after1.total).total

is_ce_number(number) ==
    LET captures == CeCaptures(number)
    IN IF ~captures.matched THEN [kind |-> "Err", text |-> "can not capture digit groups"]
       ELSE LET modulo == CeTotal(captures.group1, captures.group2) % 11
            IN CasOk(DigitValue(captures.checkdigit) = modulo)

IsCeNumber ==
    /\ ce_result = NotCalled
    /\ ce_result' = is_ce_number(ce_number)
    /\ UNCHANGED <<ce_number, scanvars, calls, casvars, cleanvars, pubchemvars, filtervars>>

InitCe ==
    /\ ce_number \in CeInputs
    /\ ce_result = NotCalled
    /\ ScanIdle /\ CallsIdle /\ CasIdle /\ CleanIdle /\ PubchemIdle /\ FilterIdle

NextCe == IsCeNumber

SpecCe == InitCe /\ [][NextCe]_vars

(***************************************************************************)
(* C14: is_ce_number(s) is Err("can not capture digit groups") when s is   *)
(* not exactly 3 digits, '-', 3 digits, '-', 1 digit; otherwise it is      *)
(* Ok(true) exactly when the check digit equals                            *)
(* (1*d1 + 2*d2 + 3*d3 + 4*d4 + 5*d5 + 6*d6) mod 11, d1..d6 being the six  *)
(* leading digits from left to right, and Ok(false) otherwise.             *)
(***************************************************************************)
C14_CeCheckDigit ==
    ce_result # NotCalled =>
        IF HasShape(ce_number, {3}, {3})
        THEN LET ds == LeadingDigits(ce_number)
             IN /\ Len(ds) = 6
                /\ ce_result = CasOk(CheckDigitOf(ce_number) = WeightedFromLeft(ds, 6) % 11)
        ELSE ce_result = [kind |-> "Err", text |-> "can not capture digit groups"]

C14_Witness ==
    /\ ce_number = <<"2", "0", "2", "-", "8", "5", "3", "-", "6">>
    /\ ce_result = CasOk(TRUE)

(***************************************************************************)
(* clean (string.rs): trim, split on whitespace, join with one space, then *)
(* the case transform.  A string is the sequence of its characters and a   *)
(* character is its Unicode scalar value ("a" is 97, " " is 32).  The      *)
(* tables are those of the Unicode Character Database, version 17.0.0:     *)
(* White_Space for trim and split_whitespace; the simple and special case  *)
(* mappings for to_uppercase and to_lowercase, which map a character to a  *)
(* sequence of characters ("ß", 223, becomes "SS"); Cased and              *)
(* Case_Ignorable for the capital sigma, which to_lowercase writes as a    *)
(* final sigma at the end of a word.                                       *)
(***************************************************************************)
MaxCleanLen == 4

\* char::is_whitespace: the characters of the property White_Space
Whitespace ==
    {9, 10, 11, 12, 13, 32, 133, 160, 5760, 8192, 8193, 8194,
     8195, 8196, 8197, 8198, 8199, 8200, 8201, 8202, 8232, 8233, 8239, 8287,
     12288}

Space == 32

Transforms == {"None", "Uppercase", "Lowercase"}

\* "a", "B", "ß", " " and tab
CleanAlphabet == {97, 66, 223, 32, 9}

\* the inputs of test_clean and strings with characters outside ASCII:
\* line feeds, a carriage return, a vertical tab, no-break spaces, an em space,
\* "é", "É", the ligature "ﬁ", "ŉ", "µ", "ǅ", "İ", and Greek words with sigmas
\* and characters whose case or properties changed after Unicode 14.0: the
\* letters U+019B, U+0264, U+1C8A, U+1C89, U+A7DC, Garay U+10D50 and U+10D70,
\* Beria Erfe U+16EA0 and U+16EBB, and a capital sigma next to U+0295 (no
\* longer Cased), U+0897 (now Case_Ignorable) and U+1171E (no longer so)
CleanCorpus ==
    {<<32, 97, 98, 99>>,
     <<97, 98, 99, 32>>,
     <<32, 97, 98, 99, 32>>,
     <<97, 32, 32, 98, 99>>,
     <<97, 32, 32, 98, 32, 32, 32, 32, 99>>,
     <<32, 65, 66, 67, 32>>,
     <<10, 97, 9, 10, 66, 32>>,
     <<97, 13, 98>>,
     <<97, 11, 98, 12>>,
     <<160, 97, 160>>,
     <<97, 8195, 12288, 98>>,
     <<133, 97, 8232, 98, 5760>>,
     <<233>>,
     <<201>>,
     <<64257>>,
     <<329>>,
     <<181>>,
     <<453>>,
     <<304>>,
     <<913, 931>>,
     <<913, 931, 32, 913>>,
     <<931>>,
     <<913, 931, 913>>,
     <<913, 931, 46>>,
     <<913, 931, 39, 913>>,
     <<913, 931, 39, 32>>,
     <<39, 931>>,
     <<201, 233, 931>>,
     <<411>>,
     <<612>>,
     <<7306>>,
     <<7305, 931>>,
     <<42972>>,
     <<68944, 32, 32, 68976>>,
     <<93856>>,
     <<93883>>,
     <<661, 931>>,
     <<913, 931, 2199, 913>>,
     <<913, 931, 71454, 913>>}

CleanInputs == UNION {[1..n -> CleanAlphabet] : n \in 0..MaxCleanLen} \cup CleanCorpus

RECURSIVE TrimStart(_)
TrimStart(s) == IF s # <<>> /\ Head(s) \in Whitespace THEN TrimStart(Tail(s)) ELSE s

RECURSIVE TrimEnd(_)
TrimEnd(s) ==
    IF s # <<>> /\ s[Len(s)] \in Whitespace THEN TrimEnd(SubSeq(s, 1, Len(s) - 1)) ELSE s

\* str::trim
Trim(s) == TrimEnd(TrimStart(s))

\* the length of the run of non-whitespace characters at the start of s
RECURSIVE WordRun(_)
WordRun(s) == IF s = <<>> \/ Head(s) \in Whitespace THEN 0 ELSE 1 + WordRun(Tail(s))

\* str::split_whitespace: the non-empty runs of non-whitespace characters
RECURSIVE SplitWhitespace(_)
SplitWhitespace(s) ==
    IF s = <<>> THEN <<>>
    ELSE IF Head(s) \in Whitespace THEN SplitWhitespace(Tail(s))
    ELSE <<SubSeq(s, 1, WordRun(s))>> \o SplitWhitespace(SubSeq(s, WordRun(s) + 1, Len(s)))

\* [&str]::join
RECURSIVE Join(_, _)
Join(words, sep) ==
    IF words = <<>> THEN <<>>
    ELSE IF Len(words) = 1 THEN words[1]
    ELSE words[1] \o sep \o Join(Tail(words), sep)

\* the characters with an uppercase mapping of one character:
\* <<first, last, step, delta>> maps first, first + step, ..., last to themselves plus delta
UppercaseRanges ==
    {<<97, 122, 1, -32>>, <<181, 181, 1, 743>>, <<224, 246, 1, -32>>, <<248, 254, 1, -32>>,
     <<255, 255, 1, 121>>, <<257, 303, 2, -1>>, <<305, 305, 1, -232>>, <<307, 311, 2, -1>>,
     <<314, 328, 2, -1>>, <<331, 375, 2, -1>>, <<378, 382, 2, -1>>, <<383, 383, 1, -300>>,
     <<384, 384, 1, 195>>, <<387, 389, 2, -1>>, <<392, 392, 1, -1>>, <<396, 396, 1, -1>>,
     <<402, 402, 1, -1>>, <<405, 405, 1, 97>>, <<409, 409, 1, -1>>, <<410, 410, 1, 163>>,
     <<411, 411, 1, 42561>>, <<414, 414, 1, 130>>, <<417, 421, 2, -1>>, <<424, 424, 1, -1>>,
     <<429, 429, 1, -1>>, <<432, 432, 1, -1>>, <<436, 438, 2, -1>>, <<441, 441, 1, -1>>,
     <<445, 445, 1, -1>>, <<447, 447, 1, 56>>, <<453, 453, 1, -1>>, <<454, 454, 1, -2>>,
     <<456, 456, 1, -1>>, <<457, 457, 1, -2>>, <<459, 459, 1, -1>>, <<460, 460, 1, -2>>,
     <<462, 476, 2, -1>>, <<477, 477, 1, -79>>, <<479, 495, 2, -1>>, <<498, 498, 1, -1>>,
     <<499, 499, 1, -2>>, <<501, 501, 1, -1>>, <<505, 543, 2, -1>>, <<547, 563, 2, -1>>,
     <<572, 572, 1, -1>>, <<575, 576, 1, 10815>>, <<578, 578, 1, -1>>, <<583, 591, 2, -1>>,
     <<592, 592, 1, 10783>>, <<593, 593, 1, 10780>>, <<594, 594, 1, 10782>>, <<595, 595, 1, -210>>,
     <<596, 596, 1, -206>>, <<598, 599, 1, -205>>, <<601, 601, 1, -202>>, <<603, 603, 1, -203>>,
     <<604, 604, 1, 42319>>, <<608, 608, 1, -205>>, <<609, 609, 1, 42315>>, <<611, 611, 1, -207>>,
     <<612, 612, 1, 42343>>, <<613, 613, 1, 42280>>, <<614, 614, 1, 42308>>, <<616, 616, 1, -209>>,
     <<617, 617, 1, -211>>, <<618, 618, 1, 42308>>, <<619, 619, 1, 10743>>, <<620, 620, 1, 42305>>,
     <<623, 623, 1, -211>>, <<625, 625, 1, 10749>>, <<626, 626, 1, -213>>, <<629, 629, 1, -214>>,
     <<637, 637, 1, 10727>>, <<640, 640, 1, -218>>, <<642, 642, 1, 42307>>, <<643, 643, 1, -218>>,
     <<647, 647, 1, 42282>>, <<648, 648, 1, -218>>, <<649, 649, 1, -69>>, <<650, 651, 1, -217>>,
     <<652, 652, 1, -71>>, <<658, 658, 1, -219>>, <<669, 669, 1, 42261>>, <<670, 670, 1, 42258>>,
     <<837, 837, 1, 84>>, <<881, 883, 2, -1>>, <<887, 887, 1, -1>>, <<891, 893, 1, 130>>,
     <<940, 940, 1, -38>>, <<941, 943, 1, -37>>, <<945, 961, 1, -32>>, <<962, 962, 1, -31>>,
     <<963, 971, 1, -32>>, <<972, 972, 1, -64>>, <<973, 974, 1, -63>>, <<976, 976, 1, -62>>,
     <<977, 977, 1, -57>>, <<981, 981, 1, -47>>, <<982, 982, 1, -54>>, <<983, 983, 1, -8>>,
     <<985, 1007, 2, -1>>, <<1008, 1008, 1, -86>>, <<1009, 1009, 1, -80>>, <<1010, 1010, 1, 7>>,
     <<1011, 1011, 1, -116>>, <<1013, 1013, 1, -96>>, <<1016, 1016, 1, -1>>, <<1019, 1019, 1, -1>>,
     <<1072, 1103, 1, -32>>, <<1104, 1119, 1, -80>>, <<1121, 1153, 2, -1>>, <<1163, 1215, 2, -1>>,
     <<1218, 1230, 2, -1>>, <<1231, 1231, 1, -15>>, <<1233, 1327, 2, -1>>, <<1377, 1414, 1, -48>>,
     <<4304, 4346, 1, 3008>>, <<4349, 4351, 1, 3008>>, <<5112, 5117, 1, -8>>, <<7296, 7296, 1, -6254>>,
     <<7297, 7297, 1, -6253>>, <<7298, 7298, 1, -6244>>, <<7299, 7300, 1, -6242>>, <<7301, 7301, 1, -6243>>,
     <<7302, 7302, 1, -6236>>, <<7303, 7303, 1, -6181>>, <<7304, 7304, 1, 35266>>, <<7306, 7306, 1, -1>>,
     <<7545, 7545, 1, 35332>>, <<7549, 7549, 1, 3814>>, <<7566, 7566, 1, 35384>>, <<7681, 7829, 2, -1>>,
     <<7835, 7835, 1, -59>>, <<7841, 7935, 2, -1>>, <<7936, 7943, 1, 8>>, <<7952, 7957, 1, 8>>,
     <<7968, 7975, 1, 8>>, <<7984, 7991, 1, 8>>, <<8000, 8005, 1, 8>>, <<8017, 8023, 2, 8>>,
     <<8032, 8039, 1, 8>>, <<8048, 8049, 1, 74>>, <<8050, 8053, 1, 86>>, <<8054, 8055, 1, 100>>,
     <<8056, 8057, 1, 128>>, <<8058, 8059, 1, 112>>, <<8060, 8061, 1, 126>>, <<8112, 8113, 1, 8>>,
     <<8126, 8126, 1, -7205>>, <<8144, 8145, 1, 8>>, <<8160, 8161, 1, 8>>, <<8165, 8165, 1, 7>>,
     <<8526, 8526, 1, -28>>, <<8560, 8575, 1, -16>>, <<8580, 8580, 1, -1>>, <<9424, 9449, 1, -26>>,
     <<11312, 11359, 1, -48>>, <<11361, 11361, 1, -1>>, <<11365, 11365, 1, -10795>>, <<11366, 11366, 1, -10792>>,
     <<11368, 11372, 2, -1>>, <<11379, 11379, 1, -1>>, <<11382, 11382, 1, -1>>, <<11393, 11491, 2, -1>>,
     <<11500, 11502, 2, -1>>, <<11507, 11507, 1, -1>>, <<11520, 11557, 1, -7264>>, <<11559, 11559, 1, -7264>>,
     <<11565, 11565, 1, -7264>>, <<42561, 42605, 2, -1>>, <<42625, 42651, 2, -1>>, <<42787, 42799, 2, -1>>,
     <<42803, 42863, 2, -1>>, <<42874, 42876, 2, -1>>, <<42879, 42887, 2, -1>>, <<42892, 42892, 1, -1>>,
     <<42897, 42899, 2, -1>>, <<42900, 42900, 1, 48>>, <<42903, 42921, 2, -1>>, <<42933, 42947, 2, -1>>,
     <<42952, 42954, 2, -1>>, <<42957, 42971, 2, -1>>, <<42998, 42998, 1, -1>>, <<43859, 43859, 1, -928>>,
     <<43888, 43967, 1, -38864>>, <<65345, 65370, 1, -32>>, <<66600, 66639, 1, -40>>, <<66776, 66811, 1, -40>>,
     <<66967, 66977, 1, -39>>, <<66979, 66993, 1, -39>>, <<66995, 67001, 1, -39>>, <<67003, 67004, 1, -39>>,
     <<68800, 68850, 1, -64>>, <<68976, 68997, 1, -32>>, <<71872, 71903, 1, -32>>, <<93792, 93823, 1, -32>>,
     <<93883, 93907, 1, -27>>, <<125218, 125251, 1, -34>>}

\* the characters with an uppercase mapping of several characters
UppercaseSpecial ==
    {<<223, <<83, 83>>>>, <<329, <<700, 78>>>>, <<496, <<74, 780>>>>, <<912, <<921, 776, 769>>>>,
     <<944, <<933, 776, 769>>>>, <<1415, <<1333, 1362>>>>, <<7830, <<72, 817>>>>, <<7831, <<84, 776>>>>,
     <<7832, <<87, 778>>>>, <<7833, <<89, 778>>>>, <<7834, <<65, 702>>>>, <<8016, <<933, 787>>>>,
     <<8018, <<933, 787, 768>>>>, <<8020, <<933, 787, 769>>>>, <<8022, <<933, 787, 834>>>>, <<8064, <<7944, 921>>>>,
     <<8065, <<7945, 921>>>>, <<8066, <<7946, 921>>>>, <<8067, <<7947, 921>>>>, <<8068, <<7948, 921>>>>,
     <<8069, <<7949, 921>>>>, <<8070, <<7950, 921>>>>, <<8071, <<7951, 921>>>>, <<8072, <<7944, 921>>>>,
     <<8073, <<7945, 921>>>>, <<8074, <<7946, 921>>>>, <<8075, <<7947, 921>>>>, <<8076, <<7948, 921>>>>,
     <<8077, <<7949, 921>>>>, <<8078, <<7950, 921>>>>, <<8079, <<7951, 921>>>>, <<8080, <<7976, 921>>>>,
     <<8081, <<7977, 921>>>>, <<8082, <<7978, 921>>>>, <<8083, <<7979, 921>>>>, <<8084, <<7980, 921>>>>,
     <<8085, <<7981, 921>>>>, <<8086, <<7982, 921>>>>, <<8087, <<7983, 921>>>>, <<8088, <<7976, 921>>>>,
     <<8089, <<7977, 921>>>>, <<8090, <<7978, 921>>>>, <<8091, <<7979, 921>>>>, <<8092, <<7980, 921>>>>,
     <<8093, <<7981, 921>>>>, <<8094, <<7982, 921>>>>, <<8095, <<7983, 921>>>>, <<8096, <<8040, 921>>>>,
     <<8097, <<8041, 921>>>>, <<8098, <<8042, 921>>>>, <<8099, <<8043, 921>>>>, <<8100, <<8044, 921>>>>,
     <<8101, <<8045, 921>>>>, <<8102, <<8046, 921>>>>, <<8103, <<8047, 921>>>>, <<8104, <<8040, 921>>>>,
     <<8105, <<8041, 921>>>>, <<8106, <<8042, 921>>>>, <<8107, <<8043, 921>>>>, <<8108, <<8044, 921>>>>,
     <<8109, <<8045, 921>>>>, <<8110, <<8046, 921>>>>, <<8111, <<8047, 921>>>>, <<8114, <<8122, 921>>>>,
     <<8115, <<913, 921>>>>, <<8116, <<902, 921>>>>, <<8118, <<913, 834>>>>, <<8119, <<913, 834, 921>>>>,
     <<8124, <<913, 921>>>>, <<8130, <<8138, 921>>>>, <<8131, <<919, 921>>>>, <<8132, <<905, 921>>>>,
     <<8134, <<919, 834>>>>, <<8135, <<919, 834, 921>>>>, <<8140, <<919, 921>>>>, <<8146, <<921, 776, 768>>>>,
     <<8147, <<921, 776, 769>>>>, <<8150, <<921, 834>>>>, <<8151, <<921, 776, 834>>>>, <<8162, <<933, 776, 768>>>>,
     <<8163, <<933, 776, 769>>>>, <<8164, <<929, 787>>>>, <<8166, <<933, 834>>>>, <<8167, <<933, 776, 834>>>>,
     <<8178, <<8186, 921>>>>, <<8179, <<937, 921>>>>, <<8180, <<911, 921>>>>, <<8182, <<937, 834>>>>,
     <<8183, <<937, 834, 921>>>>, <<8188, <<937, 921>>>>, <<64256, <<70, 70>>>>, <<64257, <<70, 73>>>>,
     <<64258, <<70, 76>>>>, <<64259, <<70, 70, 73>>>>, <<64260, <<70, 70, 76>>>>, <<64261, <<83, 84>>>>,
     <<64262, <<83, 84>>>>, <<64275, <<1348, 1350>>>>, <<64276, <<1348, 1333>>>>, <<64277, <<1348, 1339>>>>,
     <<64278, <<1358, 1350>>>>, <<64279, <<1348, 1341>>>>}

\* the characters with a lowercase mapping of one character
LowercaseRanges ==
    {<<65, 90, 1, 32>>, <<192, 214, 1, 32>>, <<216, 222, 1, 32>>, <<256, 302, 2, 1>>,
     <<306, 310, 2, 1>>, <<313, 327, 2, 1>>, <<330, 374, 2, 1>>, <<376, 376, 1, -121>>,
     <<377, 381, 2, 1>>, <<385, 385, 1, 210>>, <<386, 388, 2, 1>>, <<390, 390, 1, 206>>,
     <<391, 391, 1, 1>>, <<393, 394, 1, 205>>, <<395, 395, 1, 1>>, <<398, 398, 1, 79>>,
     <<399, 399, 1, 202>>, <<400, 400, 1, 203>>, <<401, 401, 1, 1>>, <<403, 403, 1, 205>>,
     <<404, 404, 1, 207>>, <<406, 406, 1, 211>>, <<407, 407, 1, 209>>, <<408, 408, 1, 1>>,
     <<412, 412, 1, 211>>, <<413, 413, 1, 213>>, <<415, 415, 1, 214>>, <<416, 420, 2, 1>>,
     <<422, 422, 1, 218>>, <<423, 423, 1, 1>>, <<425, 425, 1, 218>>, <<428, 428, 1, 1>>,
     <<430, 430, 1, 218>>, <<431, 431, 1, 1>>, <<433, 434, 1, 217>>, <<435, 437, 2, 1>>,
     <<439, 439, 1, 219>>, <<440, 440, 1, 1>>, <<444, 444, 1, 1>>, <<452, 452, 1, 2>>,
     <<453, 453, 1, 1>>, <<455, 455, 1, 2>>, <<456, 456, 1, 1>>, <<458, 458, 1, 2>>,
     <<459, 475, 2, 1>>, <<478, 494, 2, 1>>, <<497, 497, 1, 2>>, <<498, 500, 2, 1>>,
     <<502, 502, 1, -97>>, <<503, 503, 1, -56>>, <<504, 542, 2, 1>>, <<544, 544, 1, -130>>,
     <<546, 562, 2, 1>>, <<570, 570, 1, 10795>>, <<571, 571, 1, 1>>, <<573, 573, 1, -163>>,
     <<574, 574, 1, 10792>>, <<577, 577, 1, 1>>, <<579, 579, 1, -195>>, <<580, 580, 1, 69>>,
     <<581, 581, 1, 71>>, <<582, 590, 2, 1>>, <<880, 882, 2, 1>>, <<886, 886, 1, 1>>,
     <<895, 895, 1, 116>>, <<902, 902, 1, 38>>, <<904, 906, 1, 37>>, <<908, 908, 1, 64>>,
     <<910, 911, 1, 63>>, <<913, 929, 1, 32>>, <<931, 939, 1, 32>>, <<975, 975, 1, 8>>,
     <<984, 1006, 2, 1>>, <<1012, 1012, 1, -60>>, <<1015, 1015, 1, 1>>, <<1017, 1017, 1, -7>>,
     <<1018, 1018, 1, 1>>, <<1021, 1023, 1, -130>>, <<1024, 1039, 1, 80>>, <<1040, 1071, 1, 32>>,
     <<1120, 1152, 2, 1>>, <<1162, 1214, 2, 1>>, <<1216, 1216, 1, 15>>, <<1217, 1229, 2, 1>>,
     <<1232, 1326, 2, 1>>, <<1329, 1366, 1, 48>>, <<4256, 4293, 1, 7264>>, <<4295, 4295, 1, 7264>>,
     <<4301, 4301, 1, 7264>>, <<5024, 5103, 1, 38864>>, <<5104, 5109, 1, 8>>, <<7305, 7305, 1, 1>>,
     <<7312, 7354, 1, -3008>>, <<7357, 7359, 1, -3008>>, <<7680, 7828, 2, 1>>, <<7838, 7838, 1, -7615>>,
     <<7840, 7934, 2, 1>>, <<7944, 7951, 1, -8>>, <<7960, 7965, 1, -8>>, <<7976, 7983, 1, -8>>,
     <<7992, 7999, 1, -8>>, <<8008, 8013, 1, -8>>, <<8025, 8031, 2, -8>>, <<8040, 8047, 1, -8>>,
     <<8072, 8079, 1, -8>>, <<8088, 8095, 1, -8>>, <<8104, 8111, 1, -8>>, <<8120, 8121, 1, -8>>,
     <<8122, 8123, 1, -74>>, <<8124, 8124, 1, -9>>, <<8136, 8139, 1, -86>>, <<8140, 8140, 1, -9>>,
     <<8152, 8153, 1, -8>>, <<8154, 8155, 1, -100>>, <<8168, 8169, 1, -8>>, <<8170, 8171, 1, -112>>,
     <<8172, 8172, 1, -7>>, <<8184, 8185, 1, -128>>, <<8186, 8187, 1, -126>>, <<8188, 8188, 1, -9>>,
     <<8486, 8486, 1, -7517>>, <<8490, 8490, 1, -8383>>, <<8491, 8491, 1, -8262>>, <<8498, 8498, 1, 28>>,
     <<8544, 8559, 1, 16>>, <<8579, 8579, 1, 1>>, <<9398, 9423, 1, 26>>, <<11264, 11311, 1, 48>>,
     <<11360, 11360, 1, 1>>, <<11362, 11362, 1, -10743>>, <<11363, 11363, 1, -3814>>, <<11364, 11364, 1, -10727>>,
     <<11367, 11371, 2, 1>>, <<11373, 11373, 1, -10780>>, <<11374, 11374, 1, -10749>>, <<11375, 11375, 1, -10783>>,
     <<11376, 11376, 1, -10782>>, <<11378, 11378, 1, 1>>, <<11381, 11381, 1, 1>>, <<11390, 11391, 1, -10815>>,
     <<11392, 11490, 2, 1>>, <<11499, 11501, 2, 1>>, <<11506, 11506, 1, 1>>, <<42560, 42604, 2, 1>>,
     <<42624, 42650, 2, 1>>, <<42786, 42798, 2, 1>>, <<42802, 42862, 2, 1>>, <<42873, 42875, 2, 1>>,
     <<42877, 42877, 1, -35332>>, <<42878, 42886, 2, 1>>, <<42891, 42891, 1, 1>>, <<42893, 42893, 1, -42280>>,
     <<42896, 42898, 2, 1>>, <<42902, 42920, 2, 1>>, <<42922, 42922, 1, -42308>>, <<42923, 42923, 1, -42319>>,
     <<42924, 42924, 1, -42315>>, <<42925, 42925, 1, -42305>>, <<42926, 42926, 1, -42308>>, <<42928, 42928, 1, -42258>>,
     <<42929, 42929, 1, -42282>>, <<42930, 42930, 1, -42261>>, <<42931, 42931, 1, 928>>, <<42932, 42946, 2, 1>>,
     <<42948, 42948, 1, -48>>, <<42949, 42949, 1, -42307>>, <<42950, 42950, 1, -35384>>, <<42951, 42953, 2, 1>>,
     <<42955, 42955, 1, -42343>>, <<42956, 42970, 2, 1>>, <<42972, 42972, 1, -42561>>, <<42997, 42997, 1, 1>>,
     <<65313, 65338, 1, 32>>, <<66560, 66599, 1, 40>>, <<66736, 66771, 1, 40>>, <<66928, 66938, 1, 39>>,
     <<66940, 66954, 1, 39>>, <<66956, 66962, 1, 39>>, <<66964, 66965, 1, 39>>, <<68736, 68786, 1, 64>>,
     <<68944, 68965, 1, 32>>, <<71840, 71871, 1, 32>>, <<93760, 93791, 1, 32>>, <<93856, 93880, 1, 27>>,
     <<125184, 125217, 1, 34>>}

\* the character with a lowercase mapping of several characters
LowercaseSpecial ==
    {<<304, <<105, 775>>>>}

\* the property Cased, as ranges <<first, last>>
CasedRanges ==
    {<<65, 90>>, <<97, 122>>, <<170, 170>>, <<181, 181>>, <<186, 186>>, <<192, 214>>,
     <<216, 246>>, <<248, 442>>, <<444, 447>>, <<452, 659>>, <<662, 696>>, <<704, 705>>,
     <<736, 740>>, <<837, 837>>, <<880, 883>>, <<886, 887>>, <<890, 893>>, <<895, 895>>,
     <<902, 902>>, <<904, 906>>, <<908, 908>>, <<910, 929>>, <<931, 1013>>, <<1015, 1153>>,
     <<1162, 1327>>, <<1329, 1366>>, <<1376, 1416>>, <<4256, 4293>>, <<4295, 4295>>, <<4301, 4301>>,
     <<4304, 4346>>, <<4348, 4351>>, <<5024, 5109>>, <<5112, 5117>>, <<7296, 7306>>, <<7312, 7354>>,
     <<7357, 7359>>, <<7424, 7615>>, <<7680, 7957>>, <<7960, 7965>>, <<7968, 8005>>, <<8008, 8013>>,
     <<8016, 8023>>, <<8025, 8025>>, <<8027, 8027>>, <<8029, 8029>>, <<8031, 8061>>, <<8064, 8116>>,
     <<8118, 8124>>, <<8126, 8126>>, <<8130, 8132>>, <<8134, 8140>>, <<8144, 8147>>, <<8150, 8155>>,
     <<8160, 8172>>, <<8178, 8180>>, <<8182, 8188>>, <<8305, 8305>>, <<8319, 8319>>, <<8336, 8348>>,
     <<8450, 8450>>, <<8455, 8455>>, <<8458, 8467>>, <<8469, 8469>>, <<8473, 8477>>, <<8484, 8484>>,
     <<8486, 8486>>, <<8488, 8488>>, <<8490, 8493>>, <<8495, 8500>>, <<8505, 8505>>, <<8508, 8511>>,
     <<8517, 8521>>, <<8526, 8526>>, <<8544, 8575>>, <<8579, 8580>>, <<9398, 9449>>, <<11264, 11492>>,
     <<11499, 11502>>, <<11506, 11507>>, <<11520, 11557>>, <<11559, 11559>>, <<11565, 11565>>, <<42560, 42605>>,
     <<42624, 42653>>, <<42786, 42887>>, <<42891, 42894>>, <<42896, 42972>>, <<42993, 42998>>, <<43000, 43002>>,
     <<43824, 43866>>, <<43868, 43881>>, <<43888, 43967>>, <<64256, 64262>>, <<64275, 64279>>, <<65313, 65338>>,
     <<65345, 65370>>, <<66560, 66639>>, <<66736, 66771>>, <<66776, 66811>>, <<66928, 66938>>, <<66940, 66954>>,
     <<66956, 66962>>, <<66964, 66965>>, <<66967, 66977>>, <<66979, 66993>>, <<66995, 67001>>, <<67003, 67004>>,
     <<67456, 67456>>, <<67459, 67461>>, <<67463, 67504>>, <<67506, 67514>>, <<68736, 68786>>, <<68800, 68850>>,
     <<68944, 68965>>, <<68976, 68997>>, <<71840, 71903>>, <<93760, 93823>>, <<93856, 93880>>, <<93883, 93907>>,
     <<119808, 119892>>, <<119894, 119964>>, <<119966, 119967>>, <<119970, 119970>>, <<119973, 119974>>, <<119977, 119980>>,
     <<119982, 119993>>, <<119995, 119995>>, <<119997, 120003>>, <<120005, 120069>>, <<120071, 120074>>, <<120077, 120084>>,
     <<120086, 120092>>, <<120094, 120121>>, <<120123, 120126>>, <<120128, 120132>>, <<120134, 120134>>, <<120138, 120144>>,
     <<120146, 120485>>, <<120488, 120512>>, <<120514, 120538>>, <<120540, 120570>>, <<120572, 120596>>, <<120598, 120628>>,
     <<120630, 120654>>, <<120656, 120686>>, <<120688, 120712>>, <<120714, 120744>>, <<120746, 120770>>, <<120772, 120779>>,
     <<122624, 122633>>, <<122635, 122654>>, <<122661, 122666>>, <<122928, 122989>>, <<125184, 125251>>, <<127280, 127305>>,
     <<127312, 127337>>, <<127344, 127369>>}

\* the property Case_Ignorable, as ranges <<first, last>>
CaseIgnorableRanges ==
    {<<39, 39>>, <<46, 46>>, <<58, 58>>, <<94, 94>>, <<96, 96>>, <<168, 168>>,
     <<173, 173>>, <<175, 175>>, <<180, 180>>, <<183, 184>>, <<688, 879>>, <<884, 885>>,
     <<890, 890>>, <<900, 901>>, <<903, 903>>, <<1155, 1161>>, <<1369, 1369>>, <<1375, 1375>>,
     <<1425, 1469>>, <<1471, 1471>>, <<1473, 1474>>, <<1476, 1477>>, <<1479, 1479>>, <<1524, 1524>>,
     <<1536, 1541>>, <<1552, 1562>>, <<1564, 1564>>, <<1600, 1600>>, <<1611, 1631>>, <<1648, 1648>>,
     <<1750, 1757>>, <<1759, 1768>>, <<1770, 1773>>, <<1807, 1807>>, <<1809, 1809>>, <<1840, 1866>>,
     <<1958, 1968>>, <<2027, 2037>>, <<2042, 2042>>, <<2045, 2045>>, <<2070, 2093>>, <<2137, 2139>>,
     <<2184, 2184>>, <<2192, 2193>>, <<2199, 2207>>, <<2249, 2306>>, <<2362, 2362>>, <<2364, 2364>>,
     <<2369, 2376>>, <<2381, 2381>>, <<2385, 2391>>, <<2402, 2403>>, <<2417, 2417>>, <<2433, 2433>>,
     <<2492, 2492>>, <<2497, 2500>>, <<2509, 2509>>, <<2530, 2531>>, <<2558, 2558>>, <<2561, 2562>>,
     <<2620, 2620>>, <<2625, 2626>>, <<2631, 2632>>, <<2635, 2637>>, <<2641, 2641>>, <<2672, 2673>>,
     <<2677, 2677>>, <<2689, 2690>>, <<2748, 2748>>, <<2753, 2757>>, <<2759, 2760>>, <<2765, 2765>>,
     <<2786, 2787>>, <<2810, 2815>>, <<2817, 2817>>, <<2876, 2876>>, <<2879, 2879>>, <<2881, 2884>>,
     <<2893, 2893>>, <<2901, 2902>>, <<2914, 2915>>, <<2946, 2946>>, <<3008, 3008>>, <<3021, 3021>>,
     <<3072, 3072>>, <<3076, 3076>>, <<3132, 3132>>, <<3134, 3136>>, <<3142, 3144>>, <<3146, 3149>>,
     <<3157, 3158>>, <<3170, 3171>>, <<3201, 3201>>, <<3260, 3260>>, <<3263, 3263>>, <<3270, 3270>>,
     <<3276, 3277>>, <<3298, 3299>>, <<3328, 3329>>, <<3387, 3388>>, <<3393, 3396>>, <<3405, 3405>>,
     <<3426, 3427>>, <<3457, 3457>>, <<3530, 3530>>, <<3538, 3540>>, <<3542, 3542>>, <<3633, 3633>>,
     <<3636, 3642>>, <<3654, 3662>>, <<3761, 3761>>, <<3764, 3772>>, <<3782, 3782>>, <<3784, 3790>>,
     <<3864, 3865>>, <<3893, 3893>>, <<3895, 3895>>, <<3897, 3897>>, <<3953, 3966>>, <<3968, 3972>>,
     <<3974, 3975>>, <<3981, 3991>>, <<3993, 4028>>, <<4038, 4038>>, <<4141, 4144>>, <<4146, 4151>>,
     <<4153, 4154>>, <<4157, 4158>>, <<4184, 4185>>, <<4190, 4192>>, <<4209, 4212>>, <<4226, 4226>>,
     <<4229, 4230>>, <<4237, 4237>>, <<4253, 4253>>, <<4348, 4348>>, <<4957, 4959>>, <<5906, 5908>>,
     <<5938, 5939>>, <<5970, 5971>>, <<6002, 6003>>, <<6068, 6069>>, <<6071, 6077>>, <<6086, 6086>>,
     <<6089, 6099>>, <<6103, 6103>>, <<6109, 6109>>, <<6155, 6159>>, <<6211, 6211>>, <<6277, 6278>>,
     <<6313, 6313>>, <<6432, 6434>>, <<6439, 6440>>, <<6450, 6450>>, <<6457, 6459>>, <<6679, 6680>>,
     <<6683, 6683>>, <<6742, 6742>>, <<6744, 6750>>, <<6752, 6752>>, <<6754, 6754>>, <<6757, 6764>>,
     <<6771, 6780>>, <<6783, 6783>>, <<6823, 6823>>, <<6832, 6877>>, <<6880, 6891>>, <<6912, 6915>>,
     <<6964, 6964>>, <<6966, 6970>>, <<6972, 6972>>, <<6978, 6978>>, <<7019, 7027>>, <<7040, 7041>>,
     <<7074, 7077>>, <<7080, 7081>>, <<7083, 7085>>, <<7142, 7142>>, <<7144, 7145>>, <<7149, 7149>>,
     <<7151, 7153>>, <<7212, 7219>>, <<7222, 7223>>, <<7288, 7293>>, <<7376, 7378>>, <<7380, 7392>>,
     <<7394, 7400>>, <<7405, 7405>>, <<7412, 7412>>, <<7416, 7417>>, <<7468, 7530>>, <<7544, 7544>>,
     <<7579, 7679>>, <<8125, 8125>>, <<8127, 8129>>, <<8141, 8143>>, <<8157, 8159>>, <<8173, 8175>>,
     <<8189, 8190>>, <<8203, 8207>>, <<8216, 8217>>, <<8228, 8228>>, <<8231, 8231>>, <<8234, 8238>>,
     <<8288, 8292>>, <<8294, 8303>>, <<8305, 8305>>, <<8319, 8319>>, <<8336, 8348>>, <<8400, 8432>>,
     <<11388, 11389>>, <<11503, 11505>>, <<11631, 11631>>, <<11647, 11647>>, <<11744, 11775>>, <<11823, 11823>>,
     <<12293, 12293>>, <<12330, 12333>>, <<12337, 12341>>, <<12347, 12347>>, <<12441, 12446>>, <<12540, 12542>>,
     <<40981, 40981>>, <<42232, 42237>>, <<42508, 42508>>, <<42607, 42610>>, <<42612, 42621>>, <<42623, 42623>>,
     <<42652, 42655>>, <<42736, 42737>>, <<42752, 42785>>, <<42864, 42864>>, <<42888, 42890>>, <<42993, 42996>>,
     <<43000, 43001>>, <<43010, 43010>>, <<43014, 43014>>, <<43019, 43019>>, <<43045, 43046>>, <<43052, 43052>>,
     <<43204, 43205>>, <<43232, 43249>>, <<43263, 43263>>, <<43302, 43309>>, <<43335, 43345>>, <<43392, 43394>>,
     <<43443, 43443>>, <<43446, 43449>>, <<43452, 43453>>, <<43471, 43471>>, <<43493, 43494>>, <<43561, 43566>>,
     <<43569, 43570>>, <<43573, 43574>>, <<43587, 43587>>, <<43596, 43596>>, <<43632, 43632>>, <<43644, 43644>>,
     <<43696, 43696>>, <<43698, 43700>>, <<43703, 43704>>, <<43710, 43711>>, <<43713, 43713>>, <<43741, 43741>>,
     <<43756, 43757>>, <<43763, 43764>>, <<43766, 43766>>, <<43867, 43871>>, <<43881, 43883>>, <<44005, 44005>>,
     <<44008, 44008>>, <<44013, 44013>>, <<64286, 64286>>, <<64434, 64450>>, <<65024, 65039>>, <<65043, 65043>>,
     <<65056, 65071>>, <<65106, 65106>>, <<65109, 65109>>, <<65279, 65279>>, <<65287, 65287>>, <<65294, 65294>>,
     <<65306, 65306>>, <<65342, 65342>>, <<65344, 65344>>, <<65392, 65392>>, <<65438, 65439>>, <<65507, 65507>>,
     <<65529, 65531>>, <<66045, 66045>>, <<66272, 66272>>, <<66422, 66426>>, <<67456, 67461>>, <<67463, 67504>>,
     <<67506, 67514>>, <<68097, 68099>>, <<68101, 68102>>, <<68108, 68111>>, <<68152, 68154>>, <<68159, 68159>>,
     <<68325, 68326>>, <<68900, 68903>>, <<68942, 68942>>, <<68969, 68973>>, <<68975, 68975>>, <<69291, 69292>>,
     <<69317, 69317>>, <<69370, 69375>>, <<69446, 69456>>, <<69506, 69509>>, <<69633, 69633>>, <<69688, 69702>>,
     <<69744, 69744>>, <<69747, 69748>>, <<69759, 69761>>, <<69811, 69814>>, <<69817, 69818>>, <<69821, 69821>>,
     <<69826, 69826>>, <<69837, 69837>>, <<69888, 69890>>, <<69927, 69931>>, <<69933, 69940>>, <<70003, 70003>>,
     <<70016, 70017>>, <<70070, 70078>>, <<70089, 70092>>, <<70095, 70095>>, <<70191, 70193>>, <<70196, 70196>>,
     <<70198, 70199>>, <<70206, 70206>>, <<70209, 70209>>, <<70367, 70367>>, <<70371, 70378>>, <<70400, 70401>>,
     <<70459, 70460>>, <<70464, 70464>>, <<70502, 70508>>, <<70512, 70516>>, <<70587, 70592>>, <<70606, 70606>>,
     <<70608, 70608>>, <<70610, 70610>>, <<70625, 70626>>, <<70712, 70719>>, <<70722, 70724>>, <<70726, 70726>>,
     <<70750, 70750>>, <<70835, 70840>>, <<70842, 70842>>, <<70847, 70848>>, <<70850, 70851>>, <<71090, 71093>>,
     <<71100, 71101>>, <<71103, 71104>>, <<71132, 71133>>, <<71219, 71226>>, <<71229, 71229>>, <<71231, 71232>>,
     <<71339, 71339>>, <<71341, 71341>>, <<71344, 71349>>, <<71351, 71351>>, <<71453, 71453>>, <<71455, 71455>>,
     <<71458, 71461>>, <<71463, 71467>>, <<71727, 71735>>, <<71737, 71738>>, <<71995, 71996>>, <<71998, 71998>>,
     <<72003, 72003>>, <<72148, 72151>>, <<72154, 72155>>, <<72160, 72160>>, <<72193, 72202>>, <<72243, 72248>>,
     <<72251, 72254>>, <<72263, 72263>>, <<72273, 72278>>, <<72281, 72283>>, <<72330, 72342>>, <<72344, 72345>>,
     <<72544, 72544>>, <<72546, 72548>>, <<72550, 72550>>, <<72752, 72758>>, <<72760, 72765>>, <<72767, 72767>>,
     <<72850, 72871>>, <<72874, 72880>>, <<72882, 72883>>, <<72885, 72886>>, <<73009, 73014>>, <<73018, 73018>>,
     <<73020, 73021>>, <<73023, 73029>>, <<73031, 73031>>, <<73104, 73105>>, <<73109, 73109>>, <<73111, 73111>>,
     <<73177, 73177>>, <<73459, 73460>>, <<73472, 73473>>, <<73526, 73530>>, <<73536, 73536>>, <<73538, 73538>>,
     <<73562, 73562>>, <<78896, 78912>>, <<78919, 78933>>, <<90398, 90409>>, <<90413, 90415>>, <<92912, 92916>>,
     <<92976, 92982>>, <<92992, 92995>>, <<93504, 93506>>, <<93547, 93548>>, <<94031, 94031>>, <<94095, 94111>>,
     <<94176, 94177>>, <<94179, 94180>>, <<94194, 94195>>, <<110576, 110579>>, <<110581, 110587>>, <<110589, 110590>>,
     <<113821, 113822>>, <<113824, 113827>>, <<118528, 118573>>, <<118576, 118598>>, <<119143, 119145>>, <<119155, 119170>>,
     <<119173, 119179>>, <<119210, 119213>>, <<119362, 119364>>, <<121344, 121398>>, <<121403, 121452>>, <<121461, 121461>>,
     <<121476, 121476>>, <<121499, 121503>>, <<121505, 121519>>, <<122880, 122886>>, <<122888, 122904>>, <<122907, 122913>>,
     <<122915, 122916>>, <<122918, 122922>>, <<122928, 122989>>, <<123023, 123023>>, <<123184, 123197>>, <<123566, 123566>>,
     <<123628, 123631>>, <<124139, 124143>>, <<124398, 124399>>, <<124643, 124643>>, <<124646, 124646>>, <<124654, 124655>>,
     <<124661, 124661>>, <<124671, 124671>>, <<125136, 125142>>, <<125252, 125259>>, <<127995, 127999>>, <<917505, 917505>>,
     <<917536, 917631>>, <<917760, 917999>>}

InRanges(c, rs) == \E r \in rs : r[1] <= c /\ c <= r[2]

Cased(c) == InRanges(c, CasedRanges)

Case_Ignorable(c) == InRanges(c, CaseIgnorableRanges)

\* the mapping of c by a table of ranges and a table of special mappings
Conversion(c, rs, special) ==
    IF \E p \in special : p[1] = c THEN (CHOOSE p \in special : p[1] = c)[2]
    ELSE IF \E r \in rs : r[1] <= c /\ c <= r[2] /\ (c - r[1]) % r[3] = 0
    THEN <<c + (CHOOSE r \in rs : r[1] <= c /\ c <= r[2] /\ (c - r[1]) % r[3] = 0)[4]>>
    ELSE <<c>>

\* char::to_uppercase
UppercaseOf(c) == Conversion(c, UppercaseRanges, UppercaseSpecial)

\* char::to_lowercase
LowercaseOf(c) == Conversion(c, LowercaseRanges, LowercaseSpecial)

\* str::to_uppercase
RECURSIVE ToUppercase(_)
ToUppercase(s) == IF s = <<>> THEN <<>> ELSE UppercaseOf(Head(s)) \o ToUppercase(Tail(s))

CapitalSigma == 931
SmallSigma == 963
FinalSigma == 962

\* case_ignorable_then_cased: the first character of s that is not
\* Case_Ignorable exists and is Cased
RECURSIVE CaseIgnorableThenCased(_)
CaseIgnorableThenCased(s) ==
    IF s = <<>> THEN FALSE
    ELSE IF Case_Ignorable(Head(s)) THEN CaseIgnorableThenCased(Tail(s))
    ELSE Cased(Head(s))

\* map_uppercase_sigma: the capital sigma at position i of s ends a word
IsWordFinal(s, i) ==
    /\ CaseIgnorableThenCased([k \in 1..(i - 1) |-> s[i - k]])
    /\ ~CaseIgnorableThenCased(SubSeq(s, i + 1, Len(s)))

RECURSIVE LowercaseFrom(_, _)
LowercaseFrom(s, i) ==
    IF i > Len(s) THEN <<>>
    ELSE (IF s[i] = CapitalSigma
          THEN <<IF IsWordFinal(s, i) THEN FinalSigma ELSE SmallSigma>>
          ELSE LowercaseOf(s[i])) \o LowercaseFrom(s, i + 1)

\* str::to_lowercase
ToLowercase(s) == LowercaseFrom(s, 1)

ApplyTransform(s, transform) ==
    CASE transform = "None" -> s
      [] transform = "Uppercase" -> ToUppercase(s)
      [] transform = "Lowercase" -> ToLowercase(s)

\* clean that only trims
clean_TrimOnly(s, transform) == ApplyTransform(Trim(s), transform)

clean(s, transform) ==
    LET trimmed == Trim(s)
        words == SplitWhitespace(trimmed)
    IN ApplyTransform(Join(words, <<Space>>), transform)

Clean ==
    /\ clean_result = NotCalled
    /\ clean_result' = [kind |-> "Returned", text |-> clean(clean_s, clean_transform)]
    /\ UNCHANGED <<clean_s, clean_transform, scanvars, calls, casvars, cevars, pubchemvars, filtervars>>

InitClean ==
    /\ clean_s \in CleanInputs
    /\ clean_transform \in Transforms
    /\ clean_result = NotCalled
    /\ ScanIdle /\ CallsIdle /\ CasIdle /\ CeIdle /\ PubchemIdle /\ FilterIdle

NextClean == Clean

SpecClean == InitClean /\ [][NextClean]_vars

\* the positions of s where a word starts and where a word ends
WordStarts(s) == {i \in DOMAIN s : s[i] \notin Whitespace /\ (i = 1 \/ s[i - 1] \in Whitespace)}
WordEnds(s) == {i \in DOMAIN s : s[i] \notin Whitespace /\ (i = Len(s) \/ s[i + 1] \in Whitespace)}

\* the k-th smallest member of a set of numbers
Kth(S, k) == CHOOSE x \in S : Cardinality({y \in S : y < x}) = k - 1

\* the words of s, in their order
WordsOf(s) ==
    [k \in 1..Cardinality(WordStarts(s)) |-> SubSeq(s, Kth(WordStarts(s), k), Kth(WordEnds(s), k))]

(***************************************************************************)
(* C15: clean(s, t) is the words of s in their original order joined by    *)
(* exactly one space, with no leading or trailing whitespace and no run of *)
(* two or more whitespace characters, converted to upper or lower case     *)
(* when t is Uppercase or Lowercase and left as is when t is None; clean   *)
(* applied to its own result with the same transform returns that result.  *)
(***************************************************************************)
C15_CleanNormalises ==
    clean_result # NotCalled =>
        LET r == clean_result.text
            words == WordsOf(clean_s)
        IN /\ r = <<>> \/ (r[1] \notin Whitespace /\ r[Len(r)] \notin Whitespace)
           /\ \A i \in DOMAIN r : r[i] \in Whitespace => (r[i] = Space /\ r[i + 1] \notin Whitespace)
           /\ Len(WordsOf(r)) = Len(words)
           /\ \A k \in DOMAIN words : WordsOf(r)[k] = ApplyTransform(words[k], clean_transform)
           /\ clean_transform = "None" => \A k \in DOMAIN words : WordsOf(r)[k] = words[k]
           /\ clean(r, clean_transform) = r

\* clean("\na\t\nB ", Uppercase) is "A B"
C15_Witness ==
    /\ clean_s = <<10, 97, 9, 10, 66, 32>>
    /\ clean_transform = "Uppercase"
    /\ clean_result = [kind |-> "Returned", text |-> <<65, 32, 66>>]

(***************************************************************************)
(* The PubChem client (pubchem.rs).  autocomplete and get_compound_by_name *)
(* block on rate_limiter.until_ready() before each HTTP request.  The      *)
(* limiter is an object of the governor crate handed to the functions by   *)
(* reference: when until_ready() returns is the limiter's decision, and    *)
(* the functions do nothing but wait for it.  The calls are made one after *)
(* the other, LoopCalls of them, as in test_time_limiter.                  *)
(***************************************************************************)
LoopCalls == 5

\* how reqwest::blocking::get can end: a transport error, a response
\* whose status is not a success, or a response with a success status
ResponseOutcomes == {"transport", "status", "ok"}

\* how the reading of the response can end: the body can not be read, it can not
\* be decoded (serde_json::from_str, image::load_from_memory_with_format), the
\* decoded compounds hold no cid (first request of get_compound_by_name), the
\* image can not be written as PNG (image.write_to, third request), or it
\* yields its value
BodyOutcomes(request) ==
    {"body", "decode", "ok"}
        \cup (IF request = "compound" THEN {"no cid"} ELSE {})
        \cup (IF request = "png" THEN {"encode"} ELSE {})

\* mutation: the image is requested right after the compound
NextRequest_SkipRecord(request) ==
    CASE request = "autocomplete" -> None
      [] request = "compound" -> "png"
      [] request = "record" -> "png"
      [] request = "png" -> None

\* the request that follows a successful one, None after the last
NextRequest(request) ==
    CASE request = "autocomplete" -> None
      [] request = "compound" -> "record"
      [] request = "record" -> "png"
      [] request = "png" -> None

NoCall == [kind |-> "Call", function |-> None, pc |-> "idle", request |-> None,
           permits |-> 0, sent |-> <<>>, record |-> None, base64_png |-> None,
           result |-> [kind |-> "None"]]

Enter(function, request) ==
    [kind |-> "Call", function |-> function, pc |-> "until_ready", request |-> request,
     permits |-> 0, sent |-> <<>>, record |-> None, base64_png |-> None,
     result |-> [kind |-> "None"]]

\* compounds.record and compounds.base64_png after a request yielded its value:
\* both are optional members of the compounds decoded from the first body, which
\* may or may not hold them; the record and the image are stored from the second
\* and the third
Received(call) ==
    CASE call.request = "compound" ->
            {[call EXCEPT !.record = r, !.base64_png = b] : r \in {None, "Some"}, b \in {None, "Some"}}
      [] call.request = "record" -> {[call EXCEPT !.record = "Some"]}
      [] call.request = "png" -> {[call EXCEPT !.base64_png = "Some"]}
      [] call.request = "autocomplete" -> {call}

Failed(call, outcome) ==
    [call EXCEPT !.pc = "returned", !.result = [kind |-> "Err", text |-> outcome]]

Autocomplete ==
    /\ pubchem_call.pc \in {"idle", "returned"}
    /\ calls_done < LoopCalls
    /\ pubchem_call' = Enter("autocomplete", "autocomplete")
    /\ UNCHANGED calls_done
    /\ UNCHANGED <<scanvars, calls, casvars, cevars, cleanvars, filtervars>>

GetCompoundByName ==
    /\ pubchem_call.pc \in {"idle", "returned"}
    /\ calls_done < LoopCalls
    /\ pubchem_call' = Enter("get_compound_by_name", "compound")
    /\ UNCHANGED calls_done
    /\ UNCHANGED <<scanvars, calls, casvars, cevars, cleanvars, filtervars>>

\* block_on(rate_limiter.until_ready()) returns
UntilReady ==
    /\ pubchem_call.pc = "until_ready"
    /\ pubchem_call' = [pubchem_call EXCEPT !.pc = "get", !.permits = @ + 1]
    /\ UNCHANGED calls_done
    /\ UNCHANGED <<scanvars, calls, casvars, cevars, cleanvars, filtervars>>

\* reqwest::blocking::get is called: the request leaves and the call waits for the response
Get ==
    /\ pubchem_call.pc = "get"
    /\ pubchem_call' = [pubchem_call EXCEPT !.pc = "response",
                                            !.sent = Append(@, pubchem_call.request)]
    /\ UNCHANGED calls_done
    /\ UNCHANGED <<scanvars, calls, casvars, cevars, cleanvars, filtervars>>

\* reqwest::blocking::get returns and the status is checked; with a success
\* status the call goes on to wait for the body
Response ==
    /\ pubchem_call.pc = "response"
    /\ \E outcome \in ResponseOutcomes :
          IF outcome = "ok"
          THEN /\ pubchem_call' = [pubchem_call EXCEPT !.pc = "body"]
               /\ UNCHANGED calls_done
          ELSE /\ pubchem_call' = Failed(pubchem_call, outcome)
               /\ calls_done' = calls_done + 1
    /\ UNCHANGED <<scanvars, calls, casvars, cevars, cleanvars, filtervars>>

\* resp.text() or resp.bytes() returns, the body is decoded and, for the
\* image, written as PNG
Body ==
    /\ pubchem_call.pc = "body"
    /\ \E outcome \in BodyOutcomes(pubchem_call.request) :
          IF outcome # "ok"
          THEN /\ pubchem_call' = Failed(pubchem_call, outcome)
               /\ calls_done' = calls_done + 1
          ELSE \E received \in Received(pubchem_call) :
                  IF NextRequest(pubchem_call.request) # None
                  THEN /\ pubchem_call' =
                             [received EXCEPT !.request = NextRequest(pubchem_call.request),
                                              !.pc = "until_ready"]
                       /\ UNCHANGED calls_done
                  ELSE /\ pubchem_call' =
                             [received EXCEPT !.pc = "returned", !.result = [kind |-> "Ok"]]
                       /\ calls_done' = calls_done + 1
    /\ UNCHANGED <<scanvars, calls, casvars, cevars, cleanvars, filtervars>>

InitPubchem ==
    /\ pubchem_call = NoCall
    /\ calls_done = 0
    /\ ScanIdle /\ CallsIdle /\ CasIdle /\ CeIdle /\ CleanIdle /\ FilterIdle

NextPubchem ==
    \/ Autocomplete
    \/ GetCompoundByName
    \/ UntilReady
    \/ Get
    \/ Response
    \/ Body

SpecPubchem == InitPubchem /\ [][NextPubchem]_vars

(***************************************************************************)
(* Further claims on sort_empirical_formula, checked under Spec.           *)
(***************************************************************************)

\* the sum of the counts of the occurrences whose index is in I
RECURSIVE SumCounts(_, _)
SumCounts(blocks, I) ==
    IF I = {} THEN <<>>
    ELSE LET i == CHOOSE x \in I : TRUE
         IN NatAdd(blocks[i].count, SumCounts(blocks, I \ {i}))

OccurrencesOf(blocks, name) == {i \in DOMAIN blocks : blocks[i].atom_name = name}

NamesOf(blocks) == {blocks[i].atom_name : i \in DOMAIN blocks}

\* the count a unit of the output reports
ReportedCount(unit) == IF unit.digits = <<>> THEN NatOf(1) ELSE NatOfDecimal(unit.digits)

(***************************************************************************)
(* C21: the total reported for each symbol is the sum of the final counts  *)
(* of all its occurrences, at whatever depth they were scanned; no         *)
(* occurrence is dropped or counted twice.                                 *)
(***************************************************************************)
C21_TotalIsSumOfOccurrences ==
    result.kind = "Ok" =>
        LET map == AtomCountMap(atom_blocks)
            units == Units(result.text).units
        IN /\ DOMAIN map = NamesOf(atom_blocks)
           /\ \A name \in NamesOf(atom_blocks) :
                /\ map[name] = SumCounts(atom_blocks, OccurrencesOf(atom_blocks, name))
                /\ \E i \in DOMAIN units :
                      units[i].sym = name /\ ReportedCount(units[i]) = map[name]
           /\ SumCounts([i \in DOMAIN units |-> [count |-> ReportedCount(units[i])]], DOMAIN units)
                 = SumCounts(atom_blocks, DOMAIN atom_blocks)

\* group-open characters minus group-close characters among the first n characters of s
BracketBalance(s, n) ==
    Cardinality({i \in 1..n : s[i] \in OpenChars}) - Cardinality({i \in 1..n : s[i] \in CloseChars})

\* the position of the k-th uppercase letter of s
KthUppercase(s, k) == Kth({i \in DOMAIN s : s[i] \in Upper}, k)

(***************************************************************************)
(* C22: in every scanning state the depth is non-negative and is the       *)
(* number of group-open characters consumed minus the number of            *)
(* group-close characters consumed; each recorded occurrence carries the   *)
(* depth that was current when it was scanned, and no step changes it.     *)
(***************************************************************************)
C22_DepthTracksBrackets ==
    /\ [](result = Pending =>
            /\ parenthesis_depth >= 0
            /\ parenthesis_depth = BracketBalance(formula, cursor_index)
            /\ \A k \in DOMAIN atom_blocks :
                  atom_blocks[k].parenthesis_depth
                     = BracketBalance(formula, KthUppercase(formula, k) - 1))
    /\ [][\A k \in DOMAIN atom_blocks :
             /\ k \in DOMAIN atom_blocks'
             /\ atom_blocks'[k].parenthesis_depth = atom_blocks[k].parenthesis_depth]_vars

C22_Witness ==
    /\ result = Pending
    /\ parenthesis_depth = 1
    /\ \E i, j, k \in DOMAIN atom_blocks :
          /\ atom_blocks[i].parenthesis_depth = 0
          /\ atom_blocks[j].parenthesis_depth = 1
          /\ atom_blocks[k].parenthesis_depth = 2
    /\ \E q \in 1..cursor_index : formula[q] \in CloseChars

\* The function is entered with any input and then runs on: the scan loop and
\* the aggregation have nothing to wait for, so each next step is taken.
MaxFairLen == 10

FairInputs == {f \in Inputs : Len(f) <= MaxFairLen} \cup {OverflowingProduct, OverflowingSum}

Enter_sort_empirical_formula ==
    /\ result = NotCalled
    /\ formula' \in FairInputs
    /\ result' = Pending
    /\ UNCHANGED <<cursor_index, parenthesis_depth, previous_char, atom_blocks,
                   overflow_checks>>
    /\ UNCHANGED <<calls, casvars, cevars, cleanvars, pubchemvars, filtervars>>

InitEntered ==
    /\ formula = <<>>
    /\ cursor_index = 0
    /\ parenthesis_depth = 0
    /\ previous_char = None
    /\ atom_blocks = <<>>
    /\ result = NotCalled
    /\ overflow_checks \in BOOLEAN
    /\ CallsIdle /\ CasIdle /\ CeIdle /\ CleanIdle /\ PubchemIdle /\ FilterIdle

NextEntered == Enter_sort_empirical_formula \/ Next

FairSpec == InitEntered /\ [][NextEntered]_vars /\ WF_vars(Next)

(***************************************************************************)
(* C23: for every finite input the scan terminates, in Ok or in an error   *)
(* that the call returns:                                                  *)
(* each iteration of the loop that does not return consumes 1 or 2         *)
(* characters, the cursor never moves backwards and never passes the end   *)
(* of the input, so the loop makes at most len(input) iterations.          *)
(***************************************************************************)
C23_ScanTerminates ==
    /\ [](cursor_index \in 0..Len(formula))
    /\ [][result = Pending =>
             /\ cursor_index' >= cursor_index
             /\ cursor_index' - cursor_index <= 2
             /\ result' = Pending => cursor_index' - cursor_index \in {1, 2}
             /\ cursor_index' - cursor_index = 2 =>
                   \/ formula[cursor_index + 1] \in Upper /\ formula[cursor_index + 2] \in Lower
                   \/ formula[cursor_index + 1] \in Digit /\ formula[cursor_index + 2] \in Digit]_vars
    /\ result = Pending ~> result.kind \notin {"NotCalled", "Pending", "Panic"}

(***************************************************************************)
(* C24: sort_empirical_formula never returns CanNotParseNumber and never   *)
(* returns UnexpectedNoneAtomCount: a digit token is 1 or 2 ASCII digits,  *)
(* which parse as an unsigned integer, and the lookup guarded by           *)
(* contains_key always finds its entry.                                    *)
(***************************************************************************)
C24_DefensiveErrorsUnreachable ==
    /\ result.kind \notin {"CanNotParseNumber", "UnexpectedNoneAtomCount"}
    /\ AtDigit =>
          LET count_string == CountString(current_char, maybe_next_char)
          IN /\ Len(count_string) \in {1, 2}
             /\ \A i \in DOMAIN count_string : count_string[i] \in Digit
             /\ ParseUsize(count_string) \in 0..99
    /\ \A i \in DOMAIN atom_blocks :
          (\E j \in 1..(i - 1) : atom_blocks[j].atom_name = atom_blocks[i].atom_name)
             => atom_blocks[i].atom_name \in DOMAIN AtomCountMap(SubSeq(atom_blocks, 1, i - 1))

C24_Witness ==
    /\ result.kind = "Ok"
    /\ \E i \in 1..(Len(formula) - 1) :
          formula[i] \in Digit /\ formula[i + 1] \notin Digit \cup Upper \cup OpenChars \cup CloseChars
    /\ \E i \in 1..(Len(formula) - 1) : formula[i] \in Digit /\ formula[i + 1] \in Digit
    /\ \E i, j \in DOMAIN atom_blocks : i < j /\ atom_blocks[i].atom_name = atom_blocks[j].atom_name

(***************************************************************************)
(* request_filter (requestfilter.rs), the multi-valued id parameters:      *)
(* hazard_statements, storages, precautionary_statements, symbols, tags.   *)
(* The value of the parameter is validated by ids_match, ^((\d+),{0,1})+$, *)
(* its ids are captured by ids_capture, (?<id>\d+),{0,1}, and each is      *)
(* converted with parse::<u64>().unwrap().  \d is the class of the decimal *)
(* digits of every script; parse accepts the ASCII digits and fails above  *)
(* u64::MAX.  A converted id is kept as its decimal digits without leading *)
(* zeros.  A character outside ASCII is written as the name of its code    *)
(* point, "U+0663".                                                        *)
(***************************************************************************)
MaxIdsLen == 4

IdsKeys == {"hazard_statements", "storages", "precautionary_statements", "symbols", "tags"}

\* u64::MAX, 18446744073709551615
U64MaxDigits ==
    <<"1", "8", "4", "4", "6", "7", "4", "4", "0", "7",
      "3", "7", "0", "9", "5", "5", "1", "6", "1", "5">>

\* the character U+0663, ARABIC-INDIC DIGIT THREE, of the class Nd
ArabicIndicThree == "U+0663"

IdsValues ==
    UNION {[1..n -> {"0", "1", ",", "A", ArabicIndicThree}] : n \in 0..MaxIdsLen}
    \cup {<<"U+0664">>, <<"1", ",", "U+FF13">>, <<"U+0967", "U+06F3", ",">>,
          <<"U+10D40">>, <<"1", ",", "U+116E3">>, <<"U+1E5FA", "U+11F50", ",">>,
          <<"U+11DE0">>,
          <<"1", ",", "2", ",", "A">>, <<"1", ";", "2">>, <<"1", ",", "2", ",", "3">>,
          <<"1", "2", ",", "7", ",", "3", "0", "5", ",">>,
          U64MaxDigits,
          <<"0", "0">> \o U64MaxDigits,
          SubSeq(U64MaxDigits, 1, 19) \o <<"6">>,
          <<"7", ",">> \o SubSeq(U64MaxDigits, 1, 19) \o <<"6">>,
          <<"1">> \o [i \in 1..20 |-> "0"],
          SubSeq(U64MaxDigits, 1, 19)}

\* the 750 decimal digits (general category Nd, Unicode 16.0) outside ASCII,
\* each written as the name of its code point
NonAsciiDecimalDigits ==
    {"U+0660", "U+0661", "U+0662", "U+0663", "U+0664", "U+0665", "U+0666", "U+0667", "U+0668", "U+0669",
     "U+06F0", "U+06F1", "U+06F2", "U+06F3", "U+06F4", "U+06F5", "U+06F6", "U+06F7", "U+06F8", "U+06F9",
     "U+07C0", "U+07C1", "U+07C2", "U+07C3", "U+07C4", "U+07C5", "U+07C6", "U+07C7", "U+07C8", "U+07C9",
     "U+0966", "U+0967", "U+0968", "U+0969", "U+096A", "U+096B", "U+096C", "U+096D", "U+096E", "U+096F",
     "U+09E6", "U+09E7", "U+09E8", "U+09E9", "U+09EA", "U+09EB", "U+09EC", "U+09ED", "U+09EE", "U+09EF",
     "U+0A66", "U+0A67", "U+0A68", "U+0A69", "U+0A6A", "U+0A6B", "U+0A6C", "U+0A6D", "U+0A6E", "U+0A6F",
     "U+0AE6", "U+0AE7", "U+0AE8", "U+0AE9", "U+0AEA", "U+0AEB", "U+0AEC", "U+0AED", "U+0AEE", "U+0AEF",
     "U+0B66", "U+0B67", "U+0B68", "U+0B69", "U+0B6A", "U+0B6B", "U+0B6C", "U+0B6D", "U+0B6E", "U+0B6F",
     "U+0BE6", "U+0BE7", "U+0BE8", "U+0BE9", "U+0BEA", "U+0BEB", "U+0BEC", "U+0BED", "U+0BEE", "U+0BEF",
     "U+0C66", "U+0C67", "U+0C68", "U+0C69", "U+0C6A", "U+0C6B", "U+0C6C", "U+0C6D", "U+0C6E", "U+0C6F",
     "U+0CE6", "U+0CE7", "U+0CE8", "U+0CE9", "U+0CEA", "U+0CEB", "U+0CEC", "U+0CED", "U+0CEE", "U+0CEF",
     "U+0D66", "U+0D67", "U+0D68", "U+0D69", "U+0D6A", "U+0D6B", "U+0D6C", "U+0D6D", "U+0D6E", "U+0D6F",
     "U+0DE6", "U+0DE7", "U+0DE8", "U+0DE9", "U+0DEA", "U+0DEB", "U+0DEC", "U+0DED", "U+0DEE", "U+0DEF",
     "U+0E50", "U+0E51", "U+0E52", "U+0E53", "U+0E54", "U+0E55", "U+0E56", "U+0E57", "U+0E58", "U+0E59",
     "U+0ED0", "U+0ED1", "U+0ED2", "U+0ED3", "U+0ED4", "U+0ED5", "U+0ED6", "U+0ED7", "U+0ED8", "U+0ED9",
     "U+0F20", "U+0F21", "U+0F22", "U+0F23", "U+0F24", "U+0F25", "U+0F26", "U+0F27", "U+0F28", "U+0F29",
     "U+1040", "U+1041", "U+1042", "U+1043", "U+1044", "U+1045", "U+1046", "U+1047", "U+1048", "U+1049",
     "U+1090", "U+1091", "U+1092", "U+1093", "U+1094", "U+1095", "U+1096", "U+1097", "U+1098", "U+1099",
     "U+17E0", "U+17E1", "U+17E2", "U+17E3", "U+17E4", "U+17E5", "U+17E6", "U+17E7", "U+17E8", "U+17E9",
     "U+1810", "U+1811", "U+1812", "U+1813", "U+1814", "U+1815", "U+1816", "U+1817", "U+1818", "U+1819",
     "U+1946", "U+1947", "U+1948", "U+1949", "U+194A", "U+194B", "U+194C", "U+194D", "U+194E", "U+194F",
     "U+19D0", "U+19D1", "U+19D2", "U+19D3", "U+19D4", "U+19D5", "U+19D6", "U+19D7", "U+19D8", "U+19D9",
     "U+1A80", "U+1A81", "U+1A82", "U+1A83", "U+1A84", "U+1A85", "U+1A86", "U+1A87", "U+1A88", "U+1A89",
     "U+1A90", "U+1A91", "U+1A92", "U+1A93", "U+1A94", "U+1A95", "U+1A96", "U+1A97", "U+1A98", "U+1A99",
     "U+1B50", "U+1B51", "U+1B52", "U+1B53", "U+1B54", "U+1B55", "U+1B56", "U+1B57", "U+1B58", "U+1B59",
     "U+1BB0", "U+1BB1", "U+1BB2", "U+1BB3", "U+1BB4", "U+1BB5", "U+1BB6", "U+1BB7", "U+1BB8", "U+1BB9",
     "U+1C40", "U+1C41", "U+1C42", "U+1C43", "U+1C44", "U+1C45", "U+1C46", "U+1C47", "U+1C48", "U+1C49",
     "U+1C50", "U+1C51", "U+1C52", "U+1C53", "U+1C54", "U+1C55", "U+1C56", "U+1C57", "U+1C58", "U+1C59",
     "U+A620", "U+A621", "U+A622", "U+A623", "U+A624", "U+A625", "U+A626", "U+A627", "U+A628", "U+A629",
     "U+A8D0", "U+A8D1", "U+A8D2", "U+A8D3", "U+A8D4", "U+A8D5", "U+A8D6", "U+A8D7", "U+A8D8", "U+A8D9",
     "U+A900", "U+A901", "U+A902", "U+A903", "U+A904", "U+A905", "U+A906", "U+A907", "U+A908", "U+A909",
     "U+A9D0", "U+A9D1", "U+A9D2", "U+A9D3", "U+A9D4", "U+A9D5", "U+A9D6", "U+A9D7", "U+A9D8", "U+A9D9",
     "U+A9F0", "U+A9F1", "U+A9F2", "U+A9F3", "U+A9F4", "U+A9F5", "U+A9F6", "U+A9F7", "U+A9F8", "U+A9F9",
     "U+AA50", "U+AA51", "U+AA52", "U+AA53", "U+AA54", "U+AA55", "U+AA56", "U+AA57", "U+AA58", "U+AA59",
     "U+ABF0", "U+ABF1", "U+ABF2", "U+ABF3", "U+ABF4", "U+ABF5", "U+ABF6", "U+ABF7", "U+ABF8", "U+ABF9",
     "U+FF10", "U+FF11", "U+FF12", "U+FF13", "U+FF14", "U+FF15", "U+FF16", "U+FF17", "U+FF18", "U+FF19",
     "U+104A0", "U+104A1", "U+104A2", "U+104A3", "U+104A4", "U+104A5", "U+104A6", "U+104A7", "U+104A8", "U+104A9",
     "U+10D30", "U+10D31", "U+10D32", "U+10D33", "U+10D34", "U+10D35", "U+10D36", "U+10D37", "U+10D38", "U+10D39",
     "U+10D40", "U+10D41", "U+10D42", "U+10D43", "U+10D44", "U+10D45", "U+10D46", "U+10D47", "U+10D48", "U+10D49",
     "U+11066", "U+11067", "U+11068", "U+11069", "U+1106A", "U+1106B", "U+1106C", "U+1106D", "U+1106E", "U+1106F",
     "U+110F0", "U+110F1", "U+110F2", "U+110F3", "U+110F4", "U+110F5", "U+110F6", "U+110F7", "U+110F8", "U+110F9",
     "U+11136", "U+11137", "U+11138", "U+11139", "U+1113A", "U+1113B", "U+1113C", "U+1113D", "U+1113E", "U+1113F",
     "U+111D0", "U+111D1", "U+111D2", "U+111D3", "U+111D4", "U+111D5", "U+111D6", "U+111D7", "U+111D8", "U+111D9",
     "U+112F0", "U+112F1", "U+112F2", "U+112F3", "U+112F4", "U+112F5", "U+112F6", "U+112F7", "U+112F8", "U+112F9",
     "U+11450", "U+11451", "U+11452", "U+11453", "U+11454", "U+11455", "U+11456", "U+11457", "U+11458", "U+11459",
     "U+114D0", "U+114D1", "U+114D2", "U+114D3", "U+114D4", "U+114D5", "U+114D6", "U+114D7", "U+114D8", "U+114D9",
     "U+11650", "U+11651", "U+11652", "U+11653", "U+11654", "U+11655", "U+11656", "U+11657", "U+11658", "U+11659",
     "U+116C0", "U+116C1", "U+116C2", "U+116C3", "U+116C4", "U+116C5", "U+116C6", "U+116C7", "U+116C8", "U+116C9",
     "U+116D0", "U+116D1", "U+116D2", "U+116D3", "U+116D4", "U+116D5", "U+116D6", "U+116D7", "U+116D8", "U+116D9",
     "U+116DA", "U+116DB", "U+116DC", "U+116DD", "U+116DE", "U+116DF", "U+116E0", "U+116E1", "U+116E2", "U+116E3",
     "U+11730", "U+11731", "U+11732", "U+11733", "U+11734", "U+11735", "U+11736", "U+11737", "U+11738", "U+11739",
     "U+118E0", "U+118E1", "U+118E2", "U+118E3", "U+118E4", "U+118E5", "U+118E6", "U+118E7", "U+118E8", "U+118E9",
     "U+11950", "U+11951", "U+11952", "U+11953", "U+11954", "U+11955", "U+11956", "U+11957", "U+11958", "U+11959",
     "U+11BF0", "U+11BF1", "U+11BF2", "U+11BF3", "U+11BF4", "U+11BF5", "U+11BF6", "U+11BF7", "U+11BF8", "U+11BF9",
     "U+11C50", "U+11C51", "U+11C52", "U+11C53", "U+11C54", "U+11C55", "U+11C56", "U+11C57", "U+11C58", "U+11C59",
     "U+11D50", "U+11D51", "U+11D52", "U+11D53", "U+11D54", "U+11D55", "U+11D56", "U+11D57", "U+11D58", "U+11D59",
     "U+11DA0", "U+11DA1", "U+11DA2", "U+11DA3", "U+11DA4", "U+11DA5", "U+11DA6", "U+11DA7", "U+11DA8", "U+11DA9",
     "U+11F50", "U+11F51", "U+11F52", "U+11F53", "U+11F54", "U+11F55", "U+11F56", "U+11F57", "U+11F58", "U+11F59",
     "U+16130", "U+16131", "U+16132", "U+16133", "U+16134", "U+16135", "U+16136", "U+16137", "U+16138", "U+16139",
     "U+16A60", "U+16A61", "U+16A62", "U+16A63", "U+16A64", "U+16A65", "U+16A66", "U+16A67", "U+16A68", "U+16A69",
     "U+16AC0", "U+16AC1", "U+16AC2", "U+16AC3", "U+16AC4", "U+16AC5", "U+16AC6", "U+16AC7", "U+16AC8", "U+16AC9",
     "U+16B50", "U+16B51", "U+16B52", "U+16B53", "U+16B54", "U+16B55", "U+16B56", "U+16B57", "U+16B58", "U+16B59",
     "U+16D70", "U+16D71", "U+16D72", "U+16D73", "U+16D74", "U+16D75", "U+16D76", "U+16D77", "U+16D78", "U+16D79",
     "U+1CCF0", "U+1CCF1", "U+1CCF2", "U+1CCF3", "U+1CCF4", "U+1CCF5", "U+1CCF6", "U+1CCF7", "U+1CCF8", "U+1CCF9",
     "U+1D7CE", "U+1D7CF", "U+1D7D0", "U+1D7D1", "U+1D7D2", "U+1D7D3", "U+1D7D4", "U+1D7D5", "U+1D7D6", "U+1D7D7",
     "U+1D7D8", "U+1D7D9", "U+1D7DA", "U+1D7DB", "U+1D7DC", "U+1D7DD", "U+1D7DE", "U+1D7DF", "U+1D7E0", "U+1D7E1",
     "U+1D7E2", "U+1D7E3", "U+1D7E4", "U+1D7E5", "U+1D7E6", "U+1D7E7", "U+1D7E8", "U+1D7E9", "U+1D7EA", "U+1D7EB",
     "U+1D7EC", "U+1D7ED", "U+1D7EE", "U+1D7EF", "U+1D7F0", "U+1D7F1", "U+1D7F2", "U+1D7F3", "U+1D7F4", "U+1D7F5",
     "U+1D7F6", "U+1D7F7", "U+1D7F8", "U+1D7F9", "U+1D7FA", "U+1D7FB", "U+1D7FC", "U+1D7FD", "U+1D7FE", "U+1D7FF",
     "U+1E140", "U+1E141", "U+1E142", "U+1E143", "U+1E144", "U+1E145", "U+1E146", "U+1E147", "U+1E148", "U+1E149",
     "U+1E2F0", "U+1E2F1", "U+1E2F2", "U+1E2F3", "U+1E2F4", "U+1E2F5", "U+1E2F6", "U+1E2F7", "U+1E2F8", "U+1E2F9",
     "U+1E4F0", "U+1E4F1", "U+1E4F2", "U+1E4F3", "U+1E4F4", "U+1E4F5", "U+1E4F6", "U+1E4F7", "U+1E4F8", "U+1E4F9",
     "U+1E5F1", "U+1E5F2", "U+1E5F3", "U+1E5F4", "U+1E5F5", "U+1E5F6", "U+1E5F7", "U+1E5F8", "U+1E5F9", "U+1E5FA",
     "U+1E950", "U+1E951", "U+1E952", "U+1E953", "U+1E954", "U+1E955", "U+1E956", "U+1E957", "U+1E958", "U+1E959",
     "U+1FBF0", "U+1FBF1", "U+1FBF2", "U+1FBF3", "U+1FBF4", "U+1FBF5", "U+1FBF6", "U+1FBF7", "U+1FBF8", "U+1FBF9"}

\* \d of the regex crate: a decimal digit of any script
RegexDigit == Digit \cup NonAsciiDecimalDigits

RECURSIVE RegexDigitRun(_)
RegexDigitRun(s) == IF s # <<>> /\ s[1] \in RegexDigit THEN 1 + RegexDigitRun(Tail(s)) ELSE 0

\* ids_match.is_match: one or more groups of digits, each followed by at most one comma
RECURSIVE IdsMatch(_)
IdsMatch(s) ==
    LET d == RegexDigitRun(s)
        rest == SubSeq(s, d + 1, Len(s))
        after == IF rest # <<>> /\ rest[1] = "," THEN Tail(rest) ELSE rest
    IN d >= 1 /\ (after = <<>> \/ IdsMatch(after))

\* ids_capture.captures_iter: the group id of each successive match
RECURSIVE IdsCapture(_)
IdsCapture(s) ==
    IF s = <<>> THEN <<>>
    ELSE IF s[1] \notin RegexDigit THEN IdsCapture(Tail(s))
    ELSE LET d == RegexDigitRun(s)
             rest == SubSeq(s, d + 1, Len(s))
             after == IF rest # <<>> /\ rest[1] = "," THEN Tail(rest) ELSE rest
         IN <<SubSeq(s, 1, d)>> \o IdsCapture(after)

RECURSIVE StripZeros(_)
StripZeros(s) == IF Len(s) > 1 /\ s[1] = "0" THEN StripZeros(Tail(s)) ELSE s

\* a <= b for two strings of digits of the same length
RECURSIVE DigitsLeq(_, _)
DigitsLeq(a, b) ==
    IF a = <<>> THEN TRUE
    ELSE IF a[1] # b[1] THEN DigitValue(a[1]) < DigitValue(b[1])
    ELSE DigitsLeq(Tail(a), Tail(b))

\* str::parse::<u64>
ParseU64(s) ==
    IF s = <<>> \/ \E i \in DOMAIN s : s[i] \notin Digit THEN [ok |-> FALSE]
    ELSE LET digits == StripZeros(s)
         IN IF Len(digits) > Len(U64MaxDigits)
               \/ (Len(digits) = Len(U64MaxDigits) /\ ~DigitsLeq(digits, U64MaxDigits))
            THEN [ok |-> FALSE]
            ELSE [ok |-> TRUE, value |-> digits]

\* the branch of one multi-valued id parameter
request_filter(key, value) ==
    IF ~IdsMatch(value)
    THEN [kind |-> "Err", text |-> "invalid " \o key \o " ids format"]
    ELSE LET ids == IdsCapture(value)
         IN IF \E i \in DOMAIN ids : ~ParseU64(ids[i]).ok
            THEN [kind |-> "Panic", text |-> "called Result::unwrap() on an Err value"]
            ELSE [kind |-> "Ok", ids |-> [i \in DOMAIN ids |-> ParseU64(ids[i]).value]]

RequestFilter ==
    /\ request_filter_result = NotCalled
    /\ request_filter_result' = request_filter(query_key, query_value)
    /\ UNCHANGED <<query_key, query_value>>
    /\ UNCHANGED <<scanvars, calls, casvars, cevars, cleanvars, pubchemvars>>

InitFilter ==
    /\ query_key \in IdsKeys
    /\ query_value \in IdsValues
    /\ request_filter_result = NotCalled
    /\ ScanIdle /\ CallsIdle /\ CasIdle /\ CeIdle /\ CleanIdle /\ PubchemIdle

NextFilter == RequestFilter

SpecFilter == InitFilter /\ [][NextFilter]_vars

\* the non-empty parts of the value between its commas
NonEmptyParts(s) == SelectSeq(SplitOn(s, ","), LAMBDA part : part # <<>>)

(***************************************************************************)
(* C25: for each multi-valued id parameter, a value that fails the         *)
(* ids_match validation returns Err, and for every value that passes it    *)
(* each captured id converts to u64: the call returns Ok with the ids in   *)
(* input order and never panics.                                           *)
(***************************************************************************)
C25_ValidatedIdsConvert ==
    request_filter_result # NotCalled =>
        IF IdsMatch(query_value)
        THEN /\ request_filter_result.kind = "Ok"
             /\ Len(request_filter_result.ids) = Len(NonEmptyParts(query_value))
             /\ \A i \in DOMAIN request_filter_result.ids :
                   request_filter_result.ids[i] = StripZeros(NonEmptyParts(query_value)[i])
        ELSE request_filter_result.kind = "Err"

\* the cursor is on the first digit of a run of three or more digits
AtLongRunStart ==
    /\ AtDigit
    /\ cursor_index > 0 => formula[cursor_index] \notin Digit
    /\ DigitRun(SubSeq(formula, cursor_index + 1, Len(formula))) >= 3

\* the cursor is on a digit that follows a digit in the text
AtRunRemainder ==
    AtDigit /\ cursor_index > 0 /\ formula[cursor_index] \in Digit

\* the number written by the first two digits under the cursor
FirstTwoDigits ==
    10 * DigitValue(formula[cursor_index + 1]) + DigitValue(formula[cursor_index + 2])

(***************************************************************************)
(* C26: when a count or multiplier is written with three or more           *)
(* consecutive digits, only the first two digits form the number: the      *)
(* token at the start of the run takes two digits, gives the last atom the *)
(* count they write (after an atom) or scales counts by it (after a group  *)
(* close); every later digit of the run is consumed without error and      *)
(* without changing any recorded count.                                    *)
(***************************************************************************)
C26_LongRunUsesTwoDigits ==
    /\ [][AtLongRunStart /\ result' = Pending =>
            /\ cursor_index' = cursor_index + 2
            /\ Len(atom_blocks') = Len(atom_blocks)
            /\ previous_char \in Upper \cup Lower /\ atom_blocks # <<>> =>
                  /\ atom_blocks'[Len(atom_blocks)].count = NatOf(FirstTwoDigits)
                  /\ \A k \in 1..(Len(atom_blocks) - 1) : atom_blocks'[k] = atom_blocks[k]
            /\ previous_char \in CloseChars =>
                  \A k \in DOMAIN atom_blocks :
                      atom_blocks'[k].count \in
                          {atom_blocks[k].count, NatMul(atom_blocks[k].count, FirstTwoDigits)}]_vars
    /\ [][AtRunRemainder =>
            /\ result' = Pending
            /\ atom_blocks' = atom_blocks
            /\ cursor_index' > cursor_index]_vars

\* the scan stands on the third digit of the run of "(C)222", whose first two
\* digits were read as the multiplier 22 of the group
C26_Witness ==
    /\ AtRunRemainder
    /\ cursor_index >= 3
    /\ formula[cursor_index - 1] \in Digit
    /\ formula[cursor_index - 2] \in CloseChars
    /\ atom_blocks # <<>>
    /\ atom_blocks[Len(atom_blocks)].count = NatOf(22)

(***************************************************************************)
(* C27 as stated: normalization is idempotent on its own output, for every *)
(* input on which it succeeds, totals of 100 or more included.             *)
(***************************************************************************)
C27_Idempotent ==
    result.kind = "Ok" => sort_empirical_formula(result.text) = result

(***************************************************************************)
(* C27: normalization is idempotent on its own output when every total of  *)
(* the output is below 100: for every input x on which                     *)
(* sort_empirical_formula succeeds with such a result y,                   *)
(* sort_empirical_formula(y) succeeds and returns y.                       *)
(***************************************************************************)
C27_IdempotentBelow100 ==
    result.kind = "Ok" /\ CountsBelow100(result.text) =>
        sort_empirical_formula(result.text) = result

\* a grouped input whose output is another string, with a total of two digits
C27_Witness ==
    /\ result.kind = "Ok"
    /\ CountsBelow100(result.text)
    /\ result.text # formula
    /\ \E i \in DOMAIN formula : formula[i] \in OpenChars
    /\ \E i \in DOMAIN Units(result.text).units : Len(Units(result.text).units[i].digits) = 2

\* the position in s of the close that ends the group opened at s[1], 0 when there is none
RECURSIVE GroupEnd(_, _, _)
GroupEnd(s, i, depth) ==
    IF i > Len(s) THEN 0
    ELSE IF s[i] \in OpenChars THEN GroupEnd(s, i + 1, depth + 1)
    ELSE IF s[i] \in CloseChars
         THEN IF depth = 1 THEN i ELSE GroupEnd(s, i + 1, depth - 1)
    ELSE GroupEnd(s, i + 1, depth)

\* s read as a sequence of top-level units: a symbol of the table with an
\* optional count, or a bracket group with an optional multiplier
RECURSIVE TopUnits(_)
TopUnits(s) ==
    IF s = <<>> THEN [ok |-> TRUE, units |-> <<>>]
    ELSE LET n == IF s[1] \in Upper
                  THEN (IF Len(s) >= 2 /\ s[2] \in Lower THEN 2 ELSE 1)
                  ELSE IF s[1] \in OpenChars THEN GroupEnd(s, 1, 0)
                  ELSE 0
         IN IF n = 0 \/ (s[1] \in Upper /\ SubSeq(s, 1, n) \notin periodic_table)
            THEN [ok |-> FALSE, units |-> <<>>]
            ELSE LET d == DigitRun(SubSeq(s, n + 1, Len(s)))
                     rest == TopUnits(SubSeq(s, n + d + 1, Len(s)))
                 IN [ok |-> rest.ok, units |-> <<SubSeq(s, 1, n + d)>> \o rest.units]

RECURSIVE Flatten(_)
Flatten(units) == IF units = <<>> THEN <<>> ELSE Head(units) \o Flatten(Tail(units))

Swapped(units, i, j) ==
    [k \in DOMAIN units |-> IF k = i THEN units[j] ELSE IF k = j THEN units[i] ELSE units[k]]

(***************************************************************************)
(* C28: the canonical output does not depend on the order in which the     *)
(* top-level units are written: exchanging two units of the input, as in   *)
(* "(Na)2(Cl)3" and "(Cl)3(Na)2", yields the same output.                  *)
(***************************************************************************)
C28_UnitOrderIrrelevant ==
    Terminated /\ TopUnits(formula).ok =>
        \A i, j \in DOMAIN TopUnits(formula).units :
            sort_empirical_formula(Flatten(Swapped(TopUnits(formula).units, i, j))) = result

\* no group-close character of s is met at depth 0
NoCloseAtDepthZero(s) == \A n \in 0..Len(s) : BracketBalance(s, n) >= 0

\* every letter of s is the one-letter symbol of an atom of the table
OnlyKnownOneLetterAtoms(s) ==
    \A i \in DOMAIN s :
        s[i] \notin Lower /\ (s[i] \in Upper => <<s[i]>> \in periodic_table)

(***************************************************************************)
(* C29: only closing brackets are checked for balance.                     *)
(* UnbalancedParenthesis is returned exactly when a closing bracket is met *)
(* at depth 0.  An input without such a close is never rejected for its    *)
(* brackets, whether it ends with unclosed opening brackets or closes '('  *)
(* with ']' or '[' with ')': it fails only on its atoms or on a count that *)
(* overflows, and returns Ok when its letters are atoms of the table and   *)
(* no count overflows.                                                     *)
(***************************************************************************)
C29_OnlyClosesChecked ==
    /\ [](result.kind = "UnbalancedParenthesis" =>
            /\ cursor_index < Len(formula)
            /\ formula[cursor_index + 1] \in CloseChars
            /\ BracketBalance(formula, cursor_index) = 0)
    /\ [][AtClose /\ BracketBalance(formula, cursor_index) = 0 =>
            result'.kind = "UnbalancedParenthesis"]_vars
    /\ [](Terminated /\ NoCloseAtDepthZero(formula) =>
            /\ result.kind \in {"Ok", "UnknowAtom", "NumberAfterUnknowAtom", "Panic"}
            /\ OnlyKnownOneLetterAtoms(formula) /\ result.kind # "Panic" => result.kind = "Ok")

\* "(C]2[H)(O": '(' closed by ']', '[' closed by ')' and a last '(' left open, accepted
C29_Witness ==
    /\ result.kind = "Ok"
    /\ BracketBalance(formula, Len(formula)) > 0
    /\ \E i, j \in DOMAIN formula :
          /\ i < j
          /\ formula[i] = "(" /\ formula[j] = "]"
          /\ \A k \in (i + 1)..(j - 1) : formula[k] \notin OpenChars \cup CloseChars
    /\ \E i, j \in DOMAIN formula :
          /\ i < j
          /\ formula[i] = "[" /\ formula[j] = ")"
          /\ \A k \in (i + 1)..(j - 1) : formula[k] \notin OpenChars \cup CloseChars

\* the requests of get_compound_by_name, in the order of the code
CompoundRequests == <<"compound", "record", "png">>

IsPrefix(s, t) == Len(s) <= Len(t) /\ s = SubSeq(t, 1, Len(s))

InGetCompoundByName == pubchem_call.function = "get_compound_by_name"

(***************************************************************************)
(* C30: get_compound_by_name performs its three requests strictly in the   *)
(* order compound, record, image.  A failure of a request (transport       *)
(* error, non-success status, undecodable body, missing cid) returns Err   *)
(* at once, the failed request being the last one sent, and Ok is returned *)
(* only after the three requests succeeded, with record and base64_png     *)
(* both set.                                                               *)
(***************************************************************************)
C30_ThreeRequestsInOrder ==
    /\ [](InGetCompoundByName =>
            /\ IsPrefix(pubchem_call.sent, CompoundRequests)
            /\ pubchem_call.pc \in {"until_ready", "get"} =>
                  pubchem_call.request = CompoundRequests[Len(pubchem_call.sent) + 1]
            /\ pubchem_call.pc \in {"response", "body"} =>
                  pubchem_call.request = CompoundRequests[Len(pubchem_call.sent)]
            /\ pubchem_call.result.kind = "Ok" =>
                  /\ pubchem_call.pc = "returned"
                  /\ pubchem_call.sent = CompoundRequests
                  /\ pubchem_call.record = "Some"
                  /\ pubchem_call.base64_png = "Some"
            /\ pubchem_call.result.kind = "Err" =>
                  /\ pubchem_call.pc = "returned"
                  /\ pubchem_call.sent # <<>>
                  /\ pubchem_call.result.text = "no cid" => pubchem_call.sent = <<"compound">>)
    /\ [][InGetCompoundByName /\ pubchem_call.pc = "returned" /\ pubchem_call'.pc = "returned" =>
            pubchem_call' = pubchem_call]_vars
    /\ [][InGetCompoundByName /\ pubchem_call'.result.kind = "Err" /\ pubchem_call.pc # "returned" =>
            /\ pubchem_call.pc \in {"response", "body"}
            /\ pubchem_call'.pc = "returned"
            /\ pubchem_call'.sent = pubchem_call.sent]_vars
    /\ [][InGetCompoundByName /\ pubchem_call'.sent # pubchem_call.sent /\ pubchem_call'.sent # <<>> =>
            /\ pubchem_call.pc = "get"
            /\ pubchem_call'.sent = Append(pubchem_call.sent, pubchem_call.request)
            /\ Len(pubchem_call.sent) = 2 => pubchem_call.record = "Some"]_vars

\* the call returned Ok after its three requests
C30_Witness ==
    /\ InGetCompoundByName
    /\ pubchem_call.pc = "returned"
    /\ pubchem_call.result.kind = "Ok"
    /\ pubchem_call.sent = CompoundRequests
    /\ pubchem_call.permits = 3

====
